---- MODULE Spec2Model ----
(***************************************************************************)
(* Breeze options trader: position side detection, P&L attribution,        *)
(* close-action selection, response normalisation, the broker wrapper,     *)
(* bulk square-off, the option-chain cache and the option-chain metrics,   *)
(* modelled from app.py, breeze_client.py, utils.py, session_manager.py    *)
(* and pages/4_Square_Off.py.                                              *)
(*                                                                         *)
(* Python values are tagged records [k, i, s]: k is the Python type        *)
(* ("none" for an absent key, "int", "str"), i the integer payload and s   *)
(* the string payload.  Prices are whole rupees.  A call that can raise    *)
(* returns [ok, v]: ok = FALSE stands for the raised exception.            *)
(***************************************************************************)
EXTENDS Integers, Sequences, FiniteSets, TLC

VARIABLES
    pnl_args,        \* (entry_price, current_price, quantity) handed to Utils.calculate_pnl
    pnl_ret,         \* position_type -> value returned (or exception raised) by calculate_pnl
    raw,             \* raw envelope handed to APIResponse(...)
    resp,            \* the constructed APIResponse object (success, message, _data)
    records,         \* last value read from APIResponse.data_list
    authenticated,   \* st.session_state.authenticated
    breeze_client,   \* st.session_state.breeze_client: [exists, is_connected]
    credentials,     \* st.session_state api_key, api_secret and session_token
    broker,          \* what the SDK's get_portfolio_positions() holds under "Success"
    sdk_calls,       \* breeze.place_order(...) calls made by the last handler, in order
    log,             \* logger records emitted by the last handler, in order
    ui,              \* st.error / st.info / st.success / st.warning shown by the last handler
    sq_results,      \* list returned by the last square_off_all() call
    display_data,    \* rows of the square-off tab's positions table
    enhanced_positions, \* rows computed by the positions tab
    sell_tab,        \* the last press of a SELL button: the form and what was sent
    session_logs,    \* st.session_state order_history, trade_log, connection_log
    wrapper,         \* a BreezeClientWrapper instance: [is_connected]
    last,            \* the last call made on wrapper or the last bulk run of the square-off page
    now,             \* datetime.now(), in whole seconds
    cache,           \* st.session_state.option_chain_cache with cache_timestamp
    cache_ret,       \* what the last get_cached_option_chain call returned
    dashboard,       \* the last run of the dashboard tab: its widgets and what it did
    chain_raw,       \* raw option-chain payload handed to process_option_chain
    chain            \* table and metrics computed from chain_raw

pnlVars  == <<pnl_args, pnl_ret>>
normVars == <<raw, resp, records>>
outVars  == <<sdk_calls, log, ui, sq_results, display_data, enhanced_positions>>
appVars  == <<authenticated, breeze_client, credentials, sell_tab, session_logs, broker, sdk_calls, log, ui, sq_results, display_data,
              enhanced_positions>>
vars     == <<pnl_args, pnl_ret, raw, resp, records, authenticated, breeze_client, credentials,
              sell_tab, session_logs, broker,
              sdk_calls,
              log, ui, sq_results, display_data, enhanced_positions,
              wrapper, last, now, cache, cache_ret, dashboard, chain_raw, chain>>
clientVars == <<wrapper, last>>
cacheVars  == <<now, cache, cache_ret, dashboard>>
chainVars  == <<chain_raw, chain>>
extVars    == <<clientVars, cacheVars, chainVars>>

\* ------------------------------------------------------------------ bounds
MaxList == 2         \* longest `Success` list in a raw envelope
MaxPositions == 2    \* most position records the broker reports
MaxLogCalls == 102   \* most log_order, log_trade and log_connection calls in a session
MaxLots == 2         \* most lots entered in the sell form
MaxBulk == 2         \* most position records a bulk square-off works on
MaxDays == 1         \* whole days the clock advances
MaxTicks == 4        \* ten-second steps the clock advances within a day
MaxRows == 3         \* most rows of an option chain

\* ------------------------------------------------------- Python primitives
NoneV == [k |-> "none", i |-> 0, s |-> ""]
I(n)  == [k |-> "int",  i |-> n, s |-> ""]
S(t)  == [k |-> "str",  i |-> 0, s |-> t]

\* one logger record: logger.<level>(<event> ...)
Lg(level, event) == [level |-> level, event |-> event]

Ok(v)  == [ok |-> TRUE,  v |-> v]
Raised == [ok |-> FALSE, v |-> 0]

\* str.lower() on the strings the program handles
Lower(t) ==
    CASE t = "LONG"    -> "long"
      [] t = "Long"    -> "long"
      [] t = "SHORT"   -> "short"
      [] t = "Short"   -> "short"
      [] t = "Options" -> "options"
      [] t = "OPTIONS" -> "options"
      [] t = "Futures" -> "futures"
      [] t = "Market"  -> "market"
      [] t = "Limit"   -> "limit"
      [] OTHER         -> t

\* str.upper() on the strings the program handles
Upper(t) ==
    CASE t = "Call" -> "CALL"
      [] t = "call" -> "CALL"
      [] t = "Put"  -> "PUT"
      [] t = "put"  -> "PUT"
      [] t = "ce"   -> "CE"
      [] t = "pe"   -> "PE"
      [] OTHER      -> t

Abs(n) == IF n < 0 THEN -n ELSE n

\* ---------------------------------------------------- Utils.calculate_pnl
NoReturn == [exc |-> "not called", pnl |-> 0, pnl_percent |-> <<0, 1>>,
             entry_value |-> 0, current_value |-> 0]

\* utils.py:64-96.  pnl_percent is the exact rational <<numerator, denominator>>.
calculate_pnl(entry_price, current_price, quantity, position_type) ==
    LET pnl == IF Lower(position_type) = "long"
               THEN (current_price - entry_price) * quantity
               ELSE (entry_price - current_price) * quantity
    IN  IF entry_price = 0
        THEN [exc |-> "ZeroDivisionError", pnl |-> 0, pnl_percent |-> <<0, 1>>,
              entry_value |-> 0, current_value |-> 0]
        ELSE [exc |-> "none",
              pnl |-> pnl,
              pnl_percent |-> IF Lower(position_type) = "short"
                              THEN <<-((current_price - entry_price) * 100), entry_price>>
                              ELSE <<(current_price - entry_price) * 100, entry_price>>,
              entry_value |-> entry_price * quantity,
              current_value |-> current_price * quantity]

Prices        == {0, 80, 100}
Quantities    == {-50, 0, 50}
PositionTypes == {"long", "short", "LONG", "Short"}

PnlInputs ==
    /\ pnl_args \in [entry_price : Prices, current_price : Prices, quantity : Quantities]
    /\ pnl_ret = [t \in PositionTypes |-> NoReturn]

CalculatePnl(t) ==
    /\ pnl_ret[t] = NoReturn
    /\ pnl_ret' = [pnl_ret EXCEPT ![t] =
                     calculate_pnl(pnl_args.entry_price, pnl_args.current_price,
                                   pnl_args.quantity, t)]
    /\ UNCHANGED <<pnl_args, normVars, appVars, extVars>>

\* ------------------------------------------------------------ APIResponse
\* A mapping (Python dict of scalars) is a set of <<key, value>> pairs.
Mappings == { {}, {<<"a", 1>>}, {<<"a", 2>>}, {<<"a", 1>>, <<"b", 2>>} }

DictV(m)   == [k |-> "dict",   v |-> m]
ListV(l)   == [k |-> "list",   v |-> l]
ScalarV    == [k |-> "scalar", v |-> {}]
NullV      == [k |-> "None",   v |-> {}]
AbsentV    == [k |-> "absent", v |-> {}]

SeqsUpTo(X, n) == UNION { [1..m -> X] : m \in 0..n }

ListItems == { DictV(m) : m \in Mappings \ {{}} } \cup { ScalarV }

\* the value under data["Success"]
SuccessValues ==
    {AbsentV, NullV, ScalarV}
      \cup { DictV(m) : m \in Mappings }
      \cup { ListV(l) : l \in SeqsUpTo(ListItems, MaxList) }

\* the value under response["data"]: absent, not a dict, or a dict
DataValues == {AbsentV, ScalarV} \cup { DictV(sv) : sv \in SuccessValues }

Envelopes == [success : {"True", "False", "absent"},
              message : {"absent", "boom"},
              data    : DataValues]

\* isinstance(x, dict) for a list element: a tagged mapping or a position record
IsDict(x) == IF "k" \in DOMAIN x THEN x.k = "dict" ELSE TRUE

\* the dict a list element stands for
DictOf(x) == IF "k" \in DOMAIN x THEN x.v ELSE x

\* response.get("success", False), then Python truthiness
SuccessFlag(response) == response.success = "True"

\* response.get("message", "Unknown error")
MessageOf(response) ==
    IF response.message = "absent" THEN "Unknown error" ELSE response.message

\* app.py:147-165
_parse_data(success, response) ==
    IF ~success THEN {}
    ELSE IF response.data.k # "dict" THEN {}
    ELSE LET sv == response.data.v
         IN  CASE sv.k = "absent" -> {}
               [] sv.k = "None"   -> {}
               [] sv.k = "dict"   -> sv.v
               [] sv.k = "list"   -> IF Len(sv.v) > 0 /\ IsDict(sv.v[1])
                                     THEN DictOf(sv.v[1]) ELSE {}
               [] OTHER           -> {}

\* app.py:141-145
APIResponse(response) ==
    [raw     |-> response,
     success |-> SuccessFlag(response),
     message |-> MessageOf(response),
     _data   |-> _parse_data(SuccessFlag(response), response)]

\* app.py:167-170
data(r) == r._data

\* data_list without the check of the success flag
data_list_IgnoringSuccess(r) ==
    IF r.raw.data.k # "dict" THEN <<>>
    ELSE LET sv == r.raw.data.v
         IN  CASE sv.k = "list" -> sv.v
               [] sv.k = "dict" -> <<sv>>
               [] OTHER         -> <<>>

\* data_list without the branch that wraps a single mapping
data_list_ListOnly(r) ==
    IF ~r.success THEN <<>>
    ELSE IF r.raw.data.k # "dict" THEN <<>>
    ELSE LET sv == r.raw.data.v
         IN  CASE sv.k = "list" -> sv.v
               [] OTHER         -> <<>>

\* data_list that keeps only the first element of a list
data_list_FirstOnly(r) ==
    IF ~r.success THEN <<>>
    ELSE IF r.raw.data.k # "dict" THEN <<>>
    ELSE LET sv == r.raw.data.v
         IN  CASE sv.k = "list" -> IF sv.v = <<>> THEN <<>> ELSE <<sv.v[1]>>
               [] sv.k = "dict" -> <<sv>>
               [] OTHER         -> <<>>

\* data_list that wraps whatever it finds under Success
data_list_WrapAnything(r) ==
    IF ~r.success THEN <<>>
    ELSE IF r.raw.data.k # "dict" THEN <<>>
    ELSE LET sv == r.raw.data.v
         IN  CASE sv.k = "list" -> sv.v
               [] OTHER         -> <<sv>>

\* app.py:172-189
data_list(r) ==
    IF ~r.success THEN <<>>
    ELSE IF r.raw.data.k # "dict" THEN <<>>
    ELSE LET sv == r.raw.data.v
         IN  CASE sv.k = "list" -> sv.v
               [] sv.k = "dict" -> <<sv>>
               [] OTHER         -> <<>>

NoResp    == [built |-> FALSE]
NotRead   == [read |-> FALSE, v |-> <<>>]

NormInputs ==
    /\ raw \in Envelopes
    /\ resp = NoResp
    /\ records = NotRead

Construct ==
    /\ resp = NoResp
    /\ resp' = [built |-> TRUE, obj |-> APIResponse(raw)]
    /\ UNCHANGED <<raw, records, pnlVars, appVars, extVars>>

ReadDataList ==
    /\ resp # NoResp
    /\ records = NotRead
    /\ records' = [read |-> TRUE, v |-> data_list(resp.obj)]
    /\ UNCHANGED <<raw, resp, pnlVars, appVars, extVars>>


\* ------------------------------------------------------ position records
\* int(x): integers pass through, numeric strings are parsed, anything else raises
IntLiterals == {"50", "-50", "0", "100", "80", "20000"}

IntOfStr(t) ==
    CASE t = "50"    -> 50
      [] t = "-50"   -> -50
      [] t = "100"   -> 100
      [] t = "80"    -> 80
      [] t = "20000" -> 20000
      [] OTHER       -> 0

PyInt(x) ==
    CASE x.k = "int" -> Ok(x.i)
      [] x.k = "str" -> IF x.s \in IntLiterals THEN Ok(IntOfStr(x.s)) ELSE Raised
      [] OTHER       -> Raised

\* float(x) on whole-rupee values
PyFloat(x) == PyInt(x)

\* dict.get(key, default); an absent key is stored as NoneV
Get(p, key, default) == IF p[key].k = "none" THEN default ELSE p[key]

\* datetime.strptime(d, "%Y-%m-%d").strftime("%d-%b-%Y")
FormatExpiry(d) ==
    CASE d.k = "str" /\ d.s = "2024-01-25" -> Ok("25-Jan-2024")
      [] d.k = "str" /\ d.s = "2024-02-29" -> Ok("29-Feb-2024")
      [] OTHER                             -> Raised

Pos(action, quantity, average_price, ltp, product_type, right, expiry_date) ==
    [action        |-> action,
     quantity      |-> quantity,
     average_price |-> average_price,
     ltp           |-> ltp,
     product_type  |-> product_type,
     right         |-> right,
     expiry_date   |-> expiry_date,
     strike_price  |-> S("20000"),
     exchange_code |-> S("NFO"),
     stock_code    |-> S("NIFTY")]

Actions == {NoneV, S("buy"), S("sell")}

\* records the broker may report: every action with a long and a short
\* quantity, closed and quantity-less records, and variants of the other fields
PositionRecords ==
    { Pos(a, q, I(100), I(80), S("options"), S("Call"), S("2024-01-25")) :
        a \in Actions, q \in {I(50), I(-50)} }
    \cup
    { Pos(NoneV,     I(0),     I(100), I(80), S("options"), S("Call"), S("2024-01-25")),
      Pos(NoneV,     NoneV,    I(100), I(80), S("options"), S("Put"),  S("2024-01-25")),
      Pos(S("buy"),  S("50"),  I(0),   NoneV, S("Options"), S("Put"),  S("2024-02-29")),
      Pos(S("sell"), S("abc"), I(100), I(80), S("options"), S("Call"), S("2024-01-25")),
      Pos(S("buy"),  I(50),    I(100), I(80), S("futures"), NoneV,     S("2024-01-25")),
      Pos(S("buy"),  I(-50),   I(0),   I(80), S("options"), S("Put"),  S("25-Jan-2024")) }

\* the SDK's positions payload: "Success" is a list of records, or None
BrokerPayloads ==
    {NullV} \cup { ListV(l) : l \in SeqsUpTo(PositionRecords, MaxPositions) }

Env(success, message, d) == [success |-> success, message |-> message, data |-> d]

OrderPlaced == Env("True", "absent", DictV(DictV({<<"order_id", 1>>})))
Failure(m)  == Env("False", m, AbsentV)

\* ---------------------------------------------------- BreezeClientWrapper
\* breeze_client.py:356-371
get_portfolio_positions(connected, payload, fetch) ==
    IF ~connected
    THEN [ret |-> Failure("Not connected"), log |-> <<>>]
    ELSE IF fetch = "raise"
    THEN [ret |-> Failure("exception"),
          log |-> <<Lg("error", "Failed to get positions")>>]
    ELSE [ret |-> Env("True", "absent", DictV(payload)), log |-> <<>>]

\* place_order sending str(price) whatever the order type
place_order_AlwaysPriced(connected, o, sdk) ==
    IF ~connected
    THEN [ret |-> Failure("Not connected"), calls |-> <<>>, log |-> <<>>]
    ELSE LET formatted_expiry == FormatExpiry(o.expiry_date)
         IN  IF ~formatted_expiry.ok
             THEN [ret |-> Failure("exception"), calls |-> <<>>,
                   log |-> <<Lg("error", "Failed to place order")>>]
             ELSE LET call == [stock_code    |-> o.stock_code,
                               exchange_code |-> o.exchange,
                               product       |-> "options",
                               action        |-> o.action,
                               order_type    |-> Lower(o.order_type),
                               quantity      |-> o.quantity,
                               price         |-> [empty |-> FALSE, v |-> o.price],
                               expiry_date   |-> formatted_expiry.v,
                               right         |-> o.option_type,
                               strike_price  |-> o.strike_price]
                  IN  IF sdk = "raise"
                      THEN [ret |-> Failure("exception"), calls |-> <<call>>,
                            log |-> <<Lg("error", "Failed to place order")>>]
                      ELSE [ret |-> OrderPlaced, calls |-> <<call>>,
                            log |-> <<Lg("info", "Order placed")>>]

\* breeze_client.py:208-236.  o holds the keyword arguments; sdk is what
\* breeze.place_order does ("ok" or "raise").
place_order(connected, o, sdk) ==
    IF ~connected
    THEN [ret |-> Failure("Not connected"), calls |-> <<>>, log |-> <<>>]
    ELSE LET formatted_expiry == FormatExpiry(o.expiry_date)
         IN  IF ~formatted_expiry.ok
             THEN [ret |-> Failure("exception"), calls |-> <<>>,
                   log |-> <<Lg("error", "Failed to place order")>>]
             ELSE LET call == [stock_code    |-> o.stock_code,
                               exchange_code |-> o.exchange,
                               product       |-> "options",
                               action        |-> o.action,
                               order_type    |-> Lower(o.order_type),
                               quantity      |-> o.quantity,
                               price         |-> IF Lower(o.order_type) = "limit"
                                                 THEN [empty |-> FALSE, v |-> o.price]
                                                 ELSE [empty |-> TRUE,  v |-> 0],
                               expiry_date   |-> formatted_expiry.v,
                               right         |-> o.option_type,
                               strike_price  |-> o.strike_price]
                  IN  IF sdk = "raise"
                      THEN [ret |-> Failure("exception"), calls |-> <<call>>,
                            log |-> <<Lg("error", "Failed to place order")>>]
                      ELSE [ret |-> OrderPlaced, calls |-> <<call>>,
                            log |-> <<Lg("info", "Order placed")>>]

\* CloseAction with the two branches exchanged
CloseActionSwapped(current_position) ==
    IF Lower(current_position) = "long" THEN "buy" ELSE "sell"

\* breeze_client.py:342: the order action that closes current_position
CloseAction(current_position) ==
    IF Lower(current_position) = "long" THEN "sell" ELSE "buy"

\* breeze_client.py:349
OrderRight(option_type) == IF option_type = "CE" THEN "call" ELSE "put"

\* breeze_client.py:312-354
square_off_position(connected, a, sdk) ==
    place_order(connected,
                [stock_code   |-> a.stock_code,
                 exchange     |-> a.exchange,
                 expiry_date  |-> a.expiry_date,
                 strike_price |-> a.strike_price,
                 option_type  |-> OrderRight(a.option_type),
                 action       |-> CloseAction(a.current_position),
                 quantity     |-> a.quantity,
                 order_type   |-> a.order_type,
                 price        |-> a.price],
                sdk)

\* the side derived from the sign of the quantity (app.py:1010, breeze_client.py:590)
SideOfQuantity(qty) == IF qty > 0 THEN "long" ELSE "short"

\* a place_order SDK call together with the position record and the derived
\* side it was issued for
Tagged(calls, p, side) ==
    [n \in 1..Len(calls) |-> [call |-> calls[n], pos |-> p, current_position |-> side]]

\* SquareOffOne placing the order a second time when the first attempt failed
SquareOffOneRetrying(connected, exchange, position, sdk) ==
    LET skip == [skip |-> TRUE,  ret |-> Failure(""), calls |-> <<>>, log |-> <<>>]
        exc  == [skip |-> FALSE, ret |-> Failure("exception"), calls |-> <<>>, log |-> <<>>]
    IN  IF exchange # "" /\ Get(position, "exchange_code", S("")).s # exchange THEN skip
        ELSE LET q == PyInt(Get(position, "quantity", I(0)))
             IN  IF ~q.ok THEN exc
                 ELSE IF Abs(q.v) = 0 THEN skip
                 ELSE LET strike == PyInt(Get(position, "strike_price", I(0)))
                          current_pos == SideOfQuantity(q.v)
                      IN  IF ~strike.ok THEN exc
                          ELSE LET r == square_off_position(connected,
                                          [stock_code       |-> position.stock_code,
                                           exchange         |-> position.exchange_code.s,
                                           expiry_date      |-> position.expiry_date,
                                           strike_price     |-> strike.v,
                                           option_type      |-> Upper(Get(position, "right", S("")).s),
                                           quantity         |-> Abs(q.v),
                                           current_position |-> current_pos,
                                           order_type       |-> "market",
                                           price            |-> 0],
                                          sdk)
                                   again == IF r.ret.success = "True" THEN <<>> ELSE r.calls
                               IN  [skip |-> FALSE, ret |-> r.ret,
                                    calls |-> Tagged(r.calls \o again, position, current_pos),
                                    log |-> r.log]

\* breeze_client.py:582-604: one iteration of the loop
SquareOffOne(connected, exchange, position, sdk) ==
    LET skip == [skip |-> TRUE,  ret |-> Failure(""), calls |-> <<>>, log |-> <<>>]
        exc  == [skip |-> FALSE, ret |-> Failure("exception"), calls |-> <<>>, log |-> <<>>]
    IN  IF exchange # "" /\ Get(position, "exchange_code", S("")).s # exchange THEN skip
        ELSE LET q == PyInt(Get(position, "quantity", I(0)))
             IN  IF ~q.ok THEN exc
                 ELSE IF Abs(q.v) = 0 THEN skip
                 ELSE LET strike == PyInt(Get(position, "strike_price", I(0)))
                          current_pos == SideOfQuantity(q.v)
                      IN  IF ~strike.ok THEN exc
                          ELSE LET r == square_off_position(connected,
                                          [stock_code       |-> position.stock_code,
                                           exchange         |-> position.exchange_code.s,
                                           expiry_date      |-> position.expiry_date,
                                           strike_price     |-> strike.v,
                                           option_type      |-> Upper(Get(position, "right", S("")).s),
                                           quantity         |-> Abs(q.v),
                                           current_position |-> current_pos,
                                           order_type       |-> "market",
                                           price            |-> 0],
                                          sdk)
                               IN  [skip |-> FALSE, ret |-> r.ret,
                                    calls |-> Tagged(r.calls, position, current_pos),
                                    log |-> r.log]

RECURSIVE SquareOffLoop(_, _, _, _, _)
\* breeze_client.py:581-606: the loop from position n on; outcomes[n] is what the
\* SDK does with the order for position n.  res_at and call_at give, for every
\* result and every place_order call, the index of the position it belongs to.
SquareOffLoop(connected, exchange, positions, outcomes, n) ==
    IF n > Len(positions)
    THEN [results |-> <<>>, res_at |-> <<>>, calls |-> <<>>, call_at |-> <<>>, log |-> <<>>]
    ELSE LET one  == SquareOffOne(connected, exchange, positions[n], outcomes[n])
             rest == SquareOffLoop(connected, exchange, positions, outcomes, n + 1)
         IN  [results |-> (IF one.skip THEN <<>> ELSE <<one.ret>>) \o rest.results,
              res_at  |-> (IF one.skip THEN <<>> ELSE <<n>>) \o rest.res_at,
              calls   |-> one.calls \o rest.calls,
              call_at |-> [m \in 1..Len(one.calls) |-> n] \o rest.call_at,
              log     |-> one.log \o rest.log]

\* breeze_client.py:560-606.  raised = TRUE when the call ends in an exception;
\* fetched = TRUE when the positions were fetched and the loop was reached.
square_off_all(connected, exchange, payload, fetch, outcomes) ==
    IF ~connected
    THEN [raised |-> FALSE, fetched |-> FALSE, results |-> <<Failure("Not connected")>>,
          res_at |-> <<0>>, calls |-> <<>>, call_at |-> <<>>, log |-> <<>>]
    ELSE LET positions_response == get_portfolio_positions(connected, payload, fetch)
         IN  IF positions_response.ret.success # "True"
             THEN [raised |-> FALSE, fetched |-> FALSE, results |-> <<positions_response.ret>>,
                   res_at |-> <<0>>, calls |-> <<>>, call_at |-> <<>>,
                   log |-> positions_response.log]
             ELSE IF payload.k = "absent"
             THEN [raised |-> FALSE, fetched |-> TRUE, results |-> <<>>, res_at |-> <<>>,
                   calls |-> <<>>, call_at |-> <<>>, log |-> positions_response.log]
             ELSE IF payload.k # "list"
             THEN [raised |-> TRUE, fetched |-> TRUE, results |-> <<>>, res_at |-> <<>>,
                   calls |-> <<>>, call_at |-> <<>>, log |-> positions_response.log]
             ELSE LET l == SquareOffLoop(connected, exchange, payload.v, outcomes, 1)
                  IN  [raised |-> FALSE, fetched |-> TRUE, results |-> l.results,
                       res_at |-> l.res_at, calls |-> l.calls, call_at |-> l.call_at,
                       log |-> positions_response.log \o l.log]

\* connect that leaves is_connected as it was when the session cannot be made
connect_KeepingFlag(w, sdk) ==
    IF sdk = "ok"
    THEN [wrapper |-> [w EXCEPT !.is_connected = TRUE],
          ret |-> Env("True", "Connected successfully", AbsentV),
          log |-> <<Lg("info", "Successfully connected")>>]
    ELSE [wrapper |-> w,
          ret |-> Failure("exception"),
          log |-> <<Lg("error", "Connection failed")>>]

\* breeze_client.py:32-54.  sdk is what BreezeConnect(...).generate_session does.
connect(w, sdk) ==
    IF sdk = "ok"
    THEN [wrapper |-> [w EXCEPT !.is_connected = TRUE],
          ret |-> Env("True", "Connected successfully", AbsentV),
          log |-> <<Lg("info", "Successfully connected")>>]
    ELSE [wrapper |-> [w EXCEPT !.is_connected = FALSE],
          ret |-> Failure("exception"),
          log |-> <<Lg("error", "Connection failed")>>]

\* the operations that guard, call one SDK function inside try/except and wrap
\* its answer (breeze_client.py:56-78, 373-558)
PlainOperations ==
    {"get_customer_details", "get_funds",
     "get_portfolio_holdings", "get_order_list", "get_order_detail", "cancel_order",
     "modify_order", "get_trade_list"}

\* one of PlainOperations; sdk_fns lists the SDK functions called
PlainOperation(connected, op, sdk) ==
    IF ~connected
    THEN [ret |-> Failure("Not connected"), sdk_fns |-> <<>>, log |-> <<>>]
    ELSE IF sdk = "raise"
    THEN [ret |-> Failure("exception"), sdk_fns |-> <<op>>,
          log |-> <<Lg("error", "Failed")>>]
    ELSE [ret |-> Env("True", "absent", DictV(AbsentV)), sdk_fns |-> <<op>>, log |-> <<>>]

\* the operations that translate an expiry date inside their try block
\* before the one SDK call they make (breeze_client.py:80-167, 608-655)
ExpiryOperations == {"get_option_chain", "get_quotes", "get_margin_required"}

\* ExpiryOperation handing the expiry date to the SDK as it was given
ExpiryOperation_Untranslated(connected, op, expiry_date, sdk) ==
    IF ~connected
    THEN [ret |-> Failure("Not connected"), calls |-> <<>>, log |-> <<>>]
    ELSE LET call == [fn |-> op, expiry_date |-> expiry_date.s]
         IN  IF sdk = "raise"
             THEN [ret |-> Failure("exception"), calls |-> <<call>>,
                   log |-> <<Lg("error", "Failed")>>]
             ELSE [ret |-> Env("True", "absent", DictV(AbsentV)), calls |-> <<call>>,
                   log |-> <<>>]

\* one of ExpiryOperations; calls lists the SDK calls made with the expiry
\* date each was given.  strptime raising is caught like an SDK exception.
ExpiryOperation(connected, op, expiry_date, sdk) ==
    IF ~connected
    THEN [ret |-> Failure("Not connected"), calls |-> <<>>, log |-> <<>>]
    ELSE LET formatted_expiry == FormatExpiry(expiry_date)
         IN  IF ~formatted_expiry.ok
             THEN [ret |-> Failure("exception"), calls |-> <<>>,
                   log |-> <<Lg("error", "Failed")>>]
             ELSE LET call == [fn |-> op, expiry_date |-> formatted_expiry.v]
                  IN  IF sdk = "raise"
                      THEN [ret |-> Failure("exception"), calls |-> <<call>>,
                            log |-> <<Lg("error", "Failed")>>]
                      ELSE [ret |-> Env("True", "absent", DictV(AbsentV)),
                            calls |-> <<call>>, log |-> <<>>]

\* breeze_client.py:238-273
sell_call(connected, a, sdk) ==
    place_order(connected,
                [stock_code   |-> a.stock_code,
                 exchange     |-> a.exchange,
                 expiry_date  |-> a.expiry_date,
                 strike_price |-> a.strike_price,
                 option_type  |-> "call",
                 action       |-> "sell",
                 quantity     |-> a.quantity,
                 order_type   |-> a.order_type,
                 price        |-> a.price],
                sdk)

\* breeze_client.py:275-310
sell_put(connected, a, sdk) ==
    place_order(connected,
                [stock_code   |-> a.stock_code,
                 exchange     |-> a.exchange,
                 expiry_date  |-> a.expiry_date,
                 strike_price |-> a.strike_price,
                 option_type  |-> "put",
                 action       |-> "sell",
                 quantity     |-> a.quantity,
                 order_type   |-> a.order_type,
                 price        |-> a.price],
                sdk)

\* the order methods of the wrapper
OrderMethods == {"place_order", "sell_call", "sell_put", "square_off_position"}

\* keyword arguments of a direct order call
OrderArgs(expiry_date, order_type, price) ==
    [stock_code       |-> S("NIFTY"),
     exchange         |-> "NFO",
     expiry_date      |-> expiry_date,
     strike_price     |-> 20000,
     option_type      |-> "CE",
     action           |-> "buy",
     current_position |-> "short",
     quantity         |-> 50,
     order_type       |-> order_type,
     price            |-> price]

\* order_type and price arguments of a direct order call
OrderInputs == {<<"market", 0>>, <<"Market", 85>>, <<"limit", 85>>, <<"Limit", 0>>}

\* dispatch of a direct call of one of OrderMethods
OrderMethod(connected, method, a, sdk) ==
    CASE method = "place_order"         -> place_order(connected, a, sdk)
      [] method = "sell_call"           -> sell_call(connected, a, sdk)
      [] method = "sell_put"            -> sell_put(connected, a, sdk)
      [] method = "square_off_position" -> square_off_position(connected, a, sdk)

\* ------------------------------------------------------------ app.py tabs
NoResults == [called |-> FALSE, v |-> <<>>]

\* what one handler run produces
EmptyOut == [sdk_calls |-> <<>>, log |-> <<>>, ui |-> <<>>, sq_results |-> NoResults,
             display_data |-> <<>>, enhanced_positions |-> <<>>]

\* app.py:259-269: the decorator turns an exception into a logged error and st.error
handle_api_error(out) ==
    [out EXCEPT !.log = out.log \o <<Lg("error", "API Error")>>,
                !.ui  = out.ui \o <<"error">>]

\* app.py:953-954
IsOpenOption(p) ==
    IF Lower(Get(p, "product_type", S("")).s) # "options" THEN Ok(FALSE)
    ELSE LET q == PyInt(Get(p, "quantity", I(0)))
         IN  IF q.ok THEN Ok(q.v # 0) ELSE Raised

RECURSIVE FilterOpenOptions(_)
\* app.py:951-955
FilterOpenOptions(l) ==
    IF l = <<>> THEN Ok(<<>>)
    ELSE LET h == IsOpenOption(Head(l))
         IN  IF ~h.ok THEN Raised
             ELSE LET t == FilterOpenOptions(Tail(l))
                  IN  IF ~t.ok THEN Raised
                      ELSE Ok(IF h.v THEN <<Head(l)>> \o t.v ELSE t.v)

\* DisplayRow with the long P&L computed as entry minus last price
DisplayRowEntryMinusLast(p) ==
    LET qty == PyInt(Get(p, "quantity", I(0)))
        avg == PyFloat(Get(p, "average_price", I(0)))
    IN  IF ~qty.ok \/ ~avg.ok THEN Raised
        ELSE LET ltp == PyFloat(Get(p, "ltp", I(avg.v)))
             IN  IF ~ltp.ok THEN Raised
                 ELSE Ok([pos      |-> p,
                          Qty      |-> qty.v,
                          pnl      |-> (avg.v - ltp.v) * Abs(qty.v),
                          Position |-> IF qty.v > 0 THEN "Long" ELSE "Short"])

\* app.py:966-986: one row of the square-off table
DisplayRow(p) ==
    LET qty == PyInt(Get(p, "quantity", I(0)))
        avg == PyFloat(Get(p, "average_price", I(0)))
    IN  IF ~qty.ok \/ ~avg.ok THEN Raised
        ELSE LET ltp == PyFloat(Get(p, "ltp", I(avg.v)))
             IN  IF ~ltp.ok THEN Raised
                 ELSE Ok([pos      |-> p,
                          Qty      |-> qty.v,
                          pnl      |-> IF qty.v > 0
                                       THEN (ltp.v - avg.v) * qty.v
                                       ELSE (avg.v - ltp.v) * Abs(qty.v),
                          Position |-> IF qty.v > 0 THEN "Long" ELSE "Short"])

RECURSIVE DisplayRows(_)
\* app.py:964-986
DisplayRows(l) ==
    IF l = <<>> THEN Ok(<<>>)
    ELSE LET h == DisplayRow(Head(l))
         IN  IF ~h.ok THEN Raised
             ELSE LET t == DisplayRows(Tail(l))
                  IN  IF ~t.ok THEN Raised ELSE Ok(<<h.v>> \o t.v)

\* app.py:926-989: the part of the square-off tab that runs on every render.
\* stage tells how far the run got; "select" means the widgets are shown.
SquareOffTabHead(client, payload, fetch) ==
    IF ~client.exists
    THEN [stage |-> "return", out |-> [EmptyOut EXCEPT !.ui = <<"error">>],
          option_positions |-> <<>>]
    ELSE LET got      == get_portfolio_positions(client.is_connected, payload, fetch)
             response == APIResponse(got.ret)
             base     == [EmptyOut EXCEPT !.log = got.log]
         IN  IF ~response.success
             THEN [stage |-> "return", out |-> [base EXCEPT !.ui = <<"error">>],
                   option_positions |-> <<>>]
             ELSE IF data_list(response) = <<>>
             THEN [stage |-> "return", out |-> [base EXCEPT !.ui = <<"info">>],
                   option_positions |-> <<>>]
             ELSE LET f == FilterOpenOptions(data_list(response))
                  IN  IF ~f.ok
                      THEN [stage |-> "raised", out |-> handle_api_error(base),
                            option_positions |-> <<>>]
                      ELSE IF f.v = <<>>
                      THEN [stage |-> "return", out |-> [base EXCEPT !.ui = <<"info">>],
                            option_positions |-> <<>>]
                      ELSE LET rows == DisplayRows(f.v)
                           IN  IF ~rows.ok
                               THEN [stage |-> "raised", out |-> handle_api_error(base),
                                     option_positions |-> <<>>]
                               ELSE [stage |-> "select",
                                     out |-> [base EXCEPT !.ui = <<"success">>,
                                                          !.display_data = rows.v],
                                     option_positions |-> f.v]

\* app.py:1008-1010: magnitude and side of the selected position
SelectedQty(selected_pos)  == Abs(PyInt(Get(selected_pos, "quantity", I(0))).v)
SelectedSide(selected_pos) == SideOfQuantity(PyInt(Get(selected_pos, "quantity", I(0))).v)

\* app.py:1044-1069: the Square Off button of the selected position
SquareOffButton(client, head, selected_idx, sq_order_type, sq_limit_price, sq_qty, sdk) ==
    LET selected_pos  == head.option_positions[selected_idx]
        position_type == SelectedSide(selected_pos)
        strike        == PyInt(Get(selected_pos, "strike_price", I(0)))
    IN  IF ~strike.ok THEN handle_api_error(head.out)
        ELSE LET r == square_off_position(client.is_connected,
                        [stock_code       |-> selected_pos.stock_code,
                         exchange         |-> selected_pos.exchange_code.s,
                         expiry_date      |-> selected_pos.expiry_date,
                         strike_price     |-> strike.v,
                         option_type      |-> Upper(Get(selected_pos, "right", S("")).s),
                         quantity         |-> sq_qty,
                         current_position |-> position_type,
                         order_type       |-> Lower(sq_order_type),
                         price            |-> sq_limit_price],
                        sdk)
             IN  [head.out EXCEPT
                    !.sdk_calls = Tagged(r.calls, selected_pos, position_type),
                    !.log = head.out.log \o r.log,
                    !.ui  = head.out.ui \o
                            <<IF APIResponse(r.ret).success THEN "success" ELSE "error">>]

\* app.py:1088-1106: the SQUARE OFF ALL button
SquareOffAllButton(client, head, payload, fetch, outcomes) ==
    LET r == square_off_all(client.is_connected, "", payload, fetch, outcomes)
        after == [head.out EXCEPT !.sdk_calls = r.calls, !.log = head.out.log \o r.log]
    IN  IF r.raised THEN handle_api_error(after)
        ELSE LET success_count == Cardinality({n \in DOMAIN r.results :
                                                r.results[n].success = "True"})
                 fail_count    == Len(r.results) - success_count
             IN  [after EXCEPT
                    !.sq_results = [called |-> TRUE, v |-> r.results],
                    !.ui = head.out.ui
                           \o (IF success_count > 0 THEN <<"success">> ELSE <<>>)
                           \o (IF fail_count > 0 THEN <<"warning">> ELSE <<>>)]

\* app.py:1328-1352: one position of the positions tab; skip = TRUE for qty == 0
EnhancedPosition(pos) ==
    LET qty       == PyInt(Get(pos, "quantity", I(0)))
        avg_price == PyFloat(Get(pos, "average_price", I(0)))
    IN  IF ~qty.ok \/ ~avg_price.ok THEN Raised
        ELSE LET ltp == PyFloat(Get(pos, "ltp", I(avg_price.v)))
             IN  IF ~ltp.ok THEN Raised
                 ELSE LET pnl == IF qty.v > 0
                                 THEN (ltp.v - avg_price.v) * qty.v
                                 ELSE (avg_price.v - ltp.v) * Abs(qty.v)
                          investment == IF qty.v > 0
                                        THEN avg_price.v * qty.v
                                        ELSE avg_price.v * Abs(qty.v)
                      IN  Ok([skip           |-> qty.v = 0,
                              pos            |-> pos,
                              calculated_pnl |-> pnl,
                              pnl_percent    |-> IF investment > 0
                                                 THEN <<pnl * 100, investment>>
                                                 ELSE <<0, 1>>,
                              position_type  |-> IF qty.v > 0 THEN "Long" ELSE "Short"])

RECURSIVE EnhancedPositions(_)
\* app.py:1327-1352
EnhancedPositions(l) ==
    IF l = <<>> THEN Ok(<<>>)
    ELSE LET h == EnhancedPosition(Head(l))
         IN  IF ~h.ok THEN Raised
             ELSE LET t == EnhancedPositions(Tail(l))
                  IN  IF ~t.ok THEN Raised
                      ELSE Ok(IF h.v.skip THEN t.v ELSE <<h.v>> \o t.v)

\* app.py:1293-1356
render_positions_tab(client, payload, fetch) ==
    IF ~client.exists THEN [EmptyOut EXCEPT !.ui = <<"error">>]
    ELSE LET got      == get_portfolio_positions(client.is_connected, payload, fetch)
             response == APIResponse(got.ret)
             base     == [EmptyOut EXCEPT !.log = got.log]
         IN  IF ~response.success THEN [base EXCEPT !.ui = <<"error">>]
             ELSE IF data_list(response) = <<>> THEN [base EXCEPT !.ui = <<"info">>]
             ELSE LET e == EnhancedPositions(data_list(response))
                  IN  IF ~e.ok THEN handle_api_error(base)
                      ELSE IF e.v = <<>> THEN [base EXCEPT !.ui = <<"info">>]
                      ELSE [base EXCEPT !.enhanced_positions = e.v]

\* ----------------------------------------------------------- the session
NoClient == [exists |-> FALSE, is_connected |-> FALSE]

\* config.py:41-62: lot size and strike gap of the instruments offered
INSTRUMENTS ==
    [NIFTY     |-> [exchange |-> "NFO", stock_code |-> "NIFTY", lot_size |-> 25,
                    strike_gap |-> 50],
     BANKNIFTY |-> [exchange |-> "NFO", stock_code |-> "BANKNIFTY", lot_size |-> 15,
                    strike_gap |-> 100]]

\* the sell form before any SELL button was pressed
NoSell == [source |-> "", instrument |-> "NIFTY", option_type |-> "CE", strike_price |-> 0,
           lots |-> 1, order_type |-> "Market", limit_price |-> 0, confirm |-> FALSE,
           calls |-> <<>>, logged |-> <<>>]

\* session_manager.py:155-157: the three logs of a new session; logged counts
\* the log_order, log_trade and log_connection calls made so far
NoLogs == [order_history |-> <<>>, trade_log |-> <<>>, connection_log |-> <<>>,
           logged |-> [order |-> 0, trade |-> 0, connection |-> 0]]

\* config.py:151-153: the credentials a new session starts with
NoCredentials == [api_key |-> "", api_secret |-> "", session_token |-> ""]

\* what the user may have typed into the login form (app.py:332-356) when the
\* button is pressed; "" is a field left empty
LoginForms == [api_key : {"", "key-1"}, api_secret : {"", "secret-1"},
               session_token : {"", "token-1"}]
\* the same account with the session token of another day
RenewedForms == [api_key : {"key-1"}, api_secret : {"secret-1"},
                 session_token : {"", "token-2"}]

\* app.py:368 all([new_api_key, new_api_secret, new_session_token])
all(form) == form.api_key # "" /\ form.api_secret # "" /\ form.session_token # ""

InitApp ==
    /\ authenticated = FALSE
    /\ breeze_client = NoClient
    /\ credentials = NoCredentials
    /\ broker \in BrokerPayloads
    /\ sdk_calls = <<>>
    /\ log = <<>>
    /\ ui = <<>>
    /\ sq_results = NoResults
    /\ display_data = <<>>
    /\ enhanced_positions = <<>>
    /\ sell_tab = NoSell
    /\ session_logs = NoLogs

Show(out) ==
    /\ sdk_calls' = out.sdk_calls
    /\ log' = out.log
    /\ ui' = out.ui
    /\ sq_results' = out.sq_results
    /\ display_data' = out.display_data
    /\ enhanced_positions' = out.enhanced_positions

\* app.py:367-385 with breeze_client.py:32-54: a submitted login form.
\* form: the three fields as typed; sdk: what generate_session does.
LoginStoringAnyway(form, sdk) ==
    /\ ~authenticated
    /\ credentials' = form
    /\ IF ~all(form)
       THEN /\ Show([EmptyOut EXCEPT !.ui = <<"warning">>])
            /\ UNCHANGED <<authenticated, breeze_client>>
       ELSE IF sdk = "ok"
       THEN /\ authenticated' = TRUE
            /\ breeze_client' = [exists |-> TRUE, is_connected |-> TRUE]
            /\ Show([EmptyOut EXCEPT !.log = <<Lg("info", "Successfully connected")>>,
                                  !.ui  = <<"success">>])
       ELSE /\ Show([EmptyOut EXCEPT !.log = <<Lg("error", "Connection failed"),
                                           Lg("error", "Login failed")>>,
                                  !.ui  = <<"error">>])
            /\ UNCHANGED <<authenticated, breeze_client>>
    /\ UNCHANGED <<broker, sell_tab, session_logs, pnlVars, normVars, extVars>>

Login(form, sdk) ==
    /\ ~authenticated
    /\ IF ~all(form)
       THEN /\ Show([EmptyOut EXCEPT !.ui = <<"warning">>])
            /\ UNCHANGED <<authenticated, breeze_client, credentials>>
       ELSE IF sdk = "ok"
       THEN /\ authenticated' = TRUE
            /\ breeze_client' = [exists |-> TRUE, is_connected |-> TRUE]
            /\ credentials' = form
            /\ Show([EmptyOut EXCEPT !.log = <<Lg("info", "Successfully connected")>>,
                                  !.ui  = <<"success">>])
       ELSE /\ Show([EmptyOut EXCEPT !.log = <<Lg("error", "Connection failed"),
                                           Lg("error", "Login failed")>>,
                                  !.ui  = <<"error">>])
            /\ UNCHANGED <<authenticated, breeze_client, credentials>>
    /\ UNCHANGED <<broker, sell_tab, session_logs, pnlVars, normVars, extVars>>

\* app.py:453-456
DisconnectKeepingClient ==
    /\ authenticated
    /\ authenticated' = FALSE
    /\ Show(EmptyOut)
    /\ UNCHANGED <<breeze_client, credentials, broker, sell_tab, session_logs, pnlVars, normVars, extVars>>

Disconnect ==
    /\ authenticated
    /\ authenticated' = FALSE
    /\ breeze_client' = NoClient
    /\ Show(EmptyOut)
    /\ UNCHANGED <<credentials, broker, sell_tab, session_logs, pnlVars, normVars, extVars>>

\* widget states of the square-off form: order type with its limit price
\* (0.0 unless Limit is chosen), and the quantity slider
SqOrderWidgets == {<<"Market", 0>>, <<"Limit", 0>>, <<"Limit", 85>>}
SliderValues   == {1, 50}
SdkOutcomes   == {"ok", "raise"}

\* app.py:924-1106 rendered with no button pressed
SquareOffTabRender(fetch) ==
    /\ authenticated
    /\ Show(SquareOffTabHead(breeze_client, broker, fetch).out)
    /\ UNCHANGED <<authenticated, breeze_client, credentials, broker, sell_tab, session_logs, pnlVars, normVars, extVars>>

\* app.py:924-1070 rendered with the Square Off button pressed (the button is
\* only drawn when the positions fetch succeeded)
SquareOffTabSquareOff(selected_idx, order_widget, sq_qty, sdk) ==
    /\ authenticated
    /\ LET head == SquareOffTabHead(breeze_client, broker, "ok")
       IN  /\ head.stage = "select"
           /\ selected_idx \in DOMAIN head.option_positions
           /\ sq_qty <= SelectedQty(head.option_positions[selected_idx])
           /\ Show(SquareOffButton(breeze_client, head, selected_idx, order_widget[1],
                                   order_widget[2], sq_qty, sdk))
    /\ UNCHANGED <<authenticated, breeze_client, credentials, broker, sell_tab, session_logs, pnlVars, normVars, extVars>>

\* app.py:924-1106 rendered with the SQUARE OFF ALL button pressed
SquareOffTabSquareOffAll(fetch2, outcomes) ==
    /\ authenticated
    /\ LET head == SquareOffTabHead(breeze_client, broker, "ok")
       IN  /\ head.stage = "select"
           /\ Show(SquareOffAllButton(breeze_client, head, broker, fetch2, outcomes))
    /\ UNCHANGED <<authenticated, breeze_client, credentials, broker, sell_tab, session_logs, pnlVars, normVars, extVars>>

\* app.py:1293-1356
PositionsTabRender(fetch) ==
    /\ authenticated
    /\ Show(render_positions_tab(breeze_client, broker, fetch))
    /\ UNCHANGED <<authenticated, breeze_client, credentials, broker, sell_tab, session_logs, pnlVars, normVars, extVars>>

\* ------------------------------------------- pages/4_Square_Off.py
\* pages/4_Square_Off.py:83-86: the filter evaluates int(quantity) first
Page4IsActive(p) ==
    LET q == PyInt(Get(p, "quantity", I(0)))
    IN  IF ~q.ok THEN Raised
        ELSE Ok(q.v # 0 /\ Lower(Get(p, "product_type", S("")).s) = "options")

RECURSIVE Page4Active(_)
\* pages/4_Square_Off.py:83-86
Page4Active(l) ==
    IF l = <<>> THEN Ok(<<>>)
    ELSE LET h == Page4IsActive(Head(l))
         IN  IF ~h.ok THEN Raised
             ELSE LET t == Page4Active(Tail(l))
                  IN  IF ~t.ok THEN Raised
                      ELSE Ok(IF h.v THEN <<Head(l)>> \o t.v ELSE t.v)

\* pages/4_Square_Off.py:107-150: the summary and the expanders parse the
\* prices of every active position
Page4Renders(active) ==
    \A n \in DOMAIN active :
        LET avg == PyFloat(Get(active[n], "average_price", I(0)))
        IN  avg.ok /\ PyFloat(Get(active[n], "ltp", I(avg.v))).ok

\* pages/4_Square_Off.py:53-150: the page down to the bulk section.  stage
\* "select" means the bulk widgets are drawn for active_positions.
Page4Head(client, payload, fetch) ==
    LET positions == get_portfolio_positions(client.is_connected, payload, fetch)
    IN  IF positions.ret.success # "True"
        THEN [stage |-> "return", active_positions |-> <<>>]
        ELSE IF payload.k = "absent"
        THEN [stage |-> "return", active_positions |-> <<>>]
        ELSE IF payload.k # "list"
        THEN [stage |-> "raised", active_positions |-> <<>>]
        ELSE LET f == Page4Active(payload.v)
             IN  IF ~f.ok THEN [stage |-> "raised", active_positions |-> <<>>]
                 ELSE IF f.v = <<>> THEN [stage |-> "return", active_positions |-> <<>>]
                 ELSE IF ~Page4Renders(f.v)
                 THEN [stage |-> "raised", active_positions |-> <<>>]
                 ELSE [stage |-> "select", active_positions |-> f.v]

\* what st.multiselect can return: the chosen indices, each once, not empty
Selections(n) ==
    { s \in SeqsUpTo(1..n, n) :
        s # <<>> /\ \A a, b \in DOMAIN s : a # b => s[a] # s[b] }

RECURSIVE Page4BulkLoop(_, _, _, _, _)
\* pages/4_Square_Off.py:309-331: the loop from the n-th selected position on;
\* outcomes[n] is what the SDK does with the n-th order.  raised = TRUE when
\* an iteration ends in an exception, which ends the loop and the run.
Page4BulkLoop(connected, active_positions, selected_positions, outcomes, n) ==
    IF n > Len(selected_positions)
    THEN [raised |-> FALSE, results |-> <<>>, res_at |-> <<>>, calls |-> <<>>,
          call_at |-> <<>>, success_count |-> 0, fail_count |-> 0]
    ELSE LET pos           == active_positions[selected_positions[n]]
             qty           == PyInt(Get(pos, "quantity", I(0))).v
             position_type == SideOfQuantity(qty)
             strike        == PyInt(Get(pos, "strike_price", I(0)))
         IN  IF ~strike.ok
             THEN [raised |-> TRUE, results |-> <<>>, res_at |-> <<>>, calls |-> <<>>,
                   call_at |-> <<>>, success_count |-> 0, fail_count |-> 0]
             ELSE LET r == square_off_position(connected,
                             [stock_code       |-> pos.stock_code,
                              exchange         |-> pos.exchange_code.s,
                              expiry_date      |-> pos.expiry_date,
                              strike_price     |-> strike.v,
                              option_type      |-> Upper(Get(pos, "right", S("")).s),
                              quantity         |-> Abs(qty),
                              current_position |-> position_type,
                              order_type       |-> "market",
                              price            |-> 0],
                             outcomes[n])
                      ok   == r.ret.success = "True"
                      rest == Page4BulkLoop(connected, active_positions,
                                            selected_positions, outcomes, n + 1)
                  IN  [raised        |-> rest.raised,
                       results       |-> <<r.ret>> \o rest.results,
                       res_at        |-> <<n>> \o rest.res_at,
                       calls         |-> Tagged(r.calls, pos, position_type) \o rest.calls,
                       call_at       |-> [m \in 1..Len(r.calls) |-> n] \o rest.call_at,
                       success_count |-> (IF ok THEN 1 ELSE 0) + rest.success_count,
                       fail_count    |-> (IF ok THEN 0 ELSE 1) + rest.fail_count]

\* --------------------------------- the wrapper and the page, call by call
\* position records with a strike or an expiry the order cannot be built from
BulkRecords ==
    { Pos(S("buy"),  I(50),    I(100), I(80), S("options"), S("Call"), S("2024-01-25")),
      Pos(S("sell"), I(-50),   I(100), I(80), S("options"), S("Put"),  S("2024-01-25")),
      Pos(NoneV,     I(0),     I(100), I(80), S("options"), S("Call"), S("2024-01-25")),
      [Pos(S("buy"), I(50),    I(100), I(80), S("options"), S("Call"), S("2024-01-25"))
         EXCEPT !.strike_price = S("20000.0")] }

\* "Success" of the positions payload: missing, None, or a list of records
BulkPayloads ==
    {AbsentV, NullV} \cup { ListV(l) : l \in SeqsUpTo(BulkRecords, MaxBulk) }

NoCounts == [reported |-> FALSE, success_count |-> 0, fail_count |-> 0]

\* the record kept of one call: the operation, is_connected when it began,
\* whether it raised, the results it returned with the position each belongs
\* to, the place_order calls with the position each belongs to, every SDK
\* function called, the positions worked on, the expiry date it was given, and
\* the counts it displayed
NoCall ==
    [op |-> "none", was_connected |-> FALSE, sdk_outcome |-> "ok", raised |-> FALSE,
     fetched |-> FALSE, results |-> <<>>, res_at |-> <<>>, calls |-> <<>>,
     call_at |-> <<>>, sdk_fns |-> <<>>, positions |-> <<>>, exchange |-> "",
     expiry_date |-> NoneV, order_type |-> "", price |-> 0, outcomes |-> <<>>,
     counts |-> NoCounts]

\* a wrapper fresh from __init__, outside any session
ClientInputs ==
    /\ authenticated = FALSE
    /\ breeze_client = NoClient
    /\ credentials = NoCredentials
    /\ broker \in BulkPayloads
    /\ sdk_calls = <<>>
    /\ log = <<>>
    /\ ui = <<>>
    /\ sq_results = NoResults
    /\ display_data = <<>>
    /\ enhanced_positions = <<>>
    /\ sell_tab = NoSell
    /\ session_logs = NoLogs
    /\ wrapper = [is_connected |-> FALSE]
    /\ last = NoCall

\* a logged-in session that opens the square-off page
PageInputs ==
    /\ authenticated = TRUE
    /\ breeze_client = [exists |-> TRUE, is_connected |-> TRUE]
    /\ credentials \in {form \in LoginForms : all(form)}
    /\ broker \in BulkPayloads
    /\ sdk_calls = <<>>
    /\ log = <<>>
    /\ ui = <<>>
    /\ sq_results = NoResults
    /\ display_data = <<>>
    /\ enhanced_positions = <<>>
    /\ sell_tab = NoSell
    /\ session_logs = NoLogs
    /\ wrapper = [is_connected |-> FALSE]
    /\ last = NoCall

Exchanges    == {"", "NFO", "BFO"}
ExpiryInputs == {S("2024-01-25"), S("2024-02-29"), S("25-Jan-2024"), NoneV}

\* wrapper.connect(session_token)
ClientConnect(sdk) ==
    LET c == connect(wrapper, sdk)
    IN  /\ wrapper' = c.wrapper
        /\ last' = [NoCall EXCEPT !.op = "connect",
                                  !.was_connected = wrapper.is_connected,
                                  !.sdk_outcome = sdk,
                                  !.results = <<c.ret>>,
                                  !.sdk_fns = <<"generate_session">>]
        /\ UNCHANGED <<pnlVars, normVars, appVars, cacheVars, chainVars>>

\* a direct call of one of PlainOperations
ClientPlainOperation(op, sdk) ==
    LET r == PlainOperation(wrapper.is_connected, op, sdk)
    IN  /\ last' = [NoCall EXCEPT !.op = op,
                                  !.was_connected = wrapper.is_connected,
                                  !.sdk_outcome = sdk,
                                  !.results = <<r.ret>>,
                                  !.sdk_fns = r.sdk_fns]
        /\ UNCHANGED <<wrapper, pnlVars, normVars, appVars, cacheVars, chainVars>>

\* a direct call of one of ExpiryOperations
ClientExpiryOperation(op, expiry_date, sdk) ==
    LET r == ExpiryOperation(wrapper.is_connected, op, expiry_date, sdk)
    IN  /\ last' = [NoCall EXCEPT !.op = op,
                                  !.was_connected = wrapper.is_connected,
                                  !.sdk_outcome = sdk,
                                  !.expiry_date = expiry_date,
                                  !.results = <<r.ret>>,
                                  !.calls = r.calls,
                                  !.sdk_fns = [n \in 1..Len(r.calls) |-> op]]
        /\ UNCHANGED <<wrapper, pnlVars, normVars, appVars, cacheVars, chainVars>>

\* a direct call of one of OrderMethods
ClientOrder(method, expiry_date, order, sdk) ==
    LET r == OrderMethod(wrapper.is_connected, method,
                         OrderArgs(expiry_date, order[1], order[2]), sdk)
    IN  /\ last' = [NoCall EXCEPT !.op = method,
                                  !.was_connected = wrapper.is_connected,
                                  !.sdk_outcome = sdk,
                                  !.expiry_date = expiry_date,
                                  !.order_type = order[1],
                                  !.price = order[2],
                                  !.results = <<r.ret>>,
                                  !.calls = r.calls,
                                  !.sdk_fns = [n \in 1..Len(r.calls) |-> "place_order"]]
        /\ UNCHANGED <<wrapper, pnlVars, normVars, appVars, cacheVars, chainVars>>

\* wrapper.get_portfolio_positions()
ClientGetPositions(fetch) ==
    LET r == get_portfolio_positions(wrapper.is_connected, broker, fetch)
    IN  /\ last' = [NoCall EXCEPT !.op = "get_portfolio_positions",
                                  !.was_connected = wrapper.is_connected,
                                  !.sdk_outcome = fetch,
                                  !.results = <<r.ret>>,
                                  !.sdk_fns = IF wrapper.is_connected
                                              THEN <<"get_portfolio_positions">> ELSE <<>>]
        /\ UNCHANGED <<wrapper, pnlVars, normVars, appVars, cacheVars, chainVars>>

\* wrapper.square_off_all(exchange)
ClientSquareOffAll(exchange, fetch, outcomes) ==
    LET r == square_off_all(wrapper.is_connected, exchange, broker, fetch, outcomes)
    IN  /\ last' = [NoCall EXCEPT
                      !.op = "square_off_all",
                      !.was_connected = wrapper.is_connected,
                      !.sdk_outcome = fetch,
                      !.raised = r.raised,
                      !.fetched = r.fetched,
                      !.results = r.results,
                      !.res_at = r.res_at,
                      !.calls = r.calls,
                      !.call_at = r.call_at,
                      !.sdk_fns = (IF wrapper.is_connected
                                   THEN <<"get_portfolio_positions">> ELSE <<>>)
                                  \o [n \in 1..Len(r.calls) |-> "place_order"],
                      !.positions = IF r.fetched /\ broker.k = "list"
                                    THEN broker.v ELSE <<>>,
                      !.exchange = exchange,
                      !.outcomes = outcomes]
        /\ UNCHANGED <<wrapper, pnlVars, normVars, appVars, cacheVars, chainVars>>

\* pages/4_Square_Off.py:53-342 run with the bulk button pressed
Page4BulkSquareOff(selected_positions, outcomes) ==
    /\ authenticated
    /\ LET head == Page4Head(breeze_client, broker, "ok")
       IN  /\ head.stage = "select"
           /\ selected_positions \in Selections(Len(head.active_positions))
           /\ LET r == Page4BulkLoop(breeze_client.is_connected, head.active_positions,
                                     selected_positions, outcomes, 1)
              IN  last' = [NoCall EXCEPT
                             !.op = "page_bulk",
                             !.was_connected = breeze_client.is_connected,
                             !.raised = r.raised,
                             !.fetched = TRUE,
                             !.results = r.results,
                             !.res_at = r.res_at,
                             !.calls = r.calls,
                             !.call_at = r.call_at,
                             !.sdk_fns = <<"get_portfolio_positions">>
                                         \o [n \in 1..Len(r.calls) |-> "place_order"],
                             !.positions = [n \in DOMAIN selected_positions |->
                                              head.active_positions[selected_positions[n]]],
                             !.outcomes = outcomes,
                             !.counts = IF r.raised THEN NoCounts
                                        ELSE [reported      |-> TRUE,
                                              success_count |-> r.success_count,
                                              fail_count    |-> r.fail_count]]
    /\ UNCHANGED <<wrapper, pnlVars, normVars, appVars, cacheVars, chainVars>>

\* ------------------------------------------------- option-chain cache
\* timedelta.seconds of a non-negative difference of delta seconds: the part
\* below one day; whole days are held in timedelta.days
TimedeltaSeconds(delta) == delta % 86400

CacheKeys == {"NIFTY_2024-01-25", "BANKNIFTY_2024-01-25"}

\* the table fetched for a key
TableOf(key) == <<"df", key>>

NoEntry   == [present |-> FALSE, data |-> <<>>, timestamp |-> 0]
NoLookup  == [called |-> FALSE, key |-> "", ttl_seconds |-> 0, present |-> FALSE,
              age |-> 0, hit |-> FALSE, data |-> <<>>]

\* ttl_seconds handed to get_cached_option_chain: the default and a shorter one
Ttls == {20, 30}

\* how far the clock moves between two calls: ten seconds or one day
ClockSteps == {10, 86400}

\* the dashboard tab before its first run
NoRender == [rendered |-> FALSE, cache_key |-> "", refresh_clicked |-> FALSE,
             sdk_fns |-> <<>>, success |-> "", df |-> [run |-> FALSE, ok |-> TRUE, v |-> 0]]

IdleCache == /\ now = 0 /\ cache = [key \in CacheKeys |-> NoEntry] /\ cache_ret = NoLookup
             /\ dashboard = NoRender

\* app.py:247-256, session_manager.py:243-251
get_cached_option_chain(entries, clock, key, ttl_seconds) ==
    IF ~entries[key].present THEN [hit |-> FALSE, data |-> <<>>]
    ELSE IF TimedeltaSeconds(clock - entries[key].timestamp) < ttl_seconds
    THEN [hit |-> TRUE, data |-> entries[key].data]
    ELSE [hit |-> FALSE, data |-> <<>>]

\* app.py:241-244, session_manager.py:237-240
CacheOptionChain(key) ==
    /\ cache' = [cache EXCEPT ![key] = [present |-> TRUE, data |-> TableOf(key),
                                        timestamp |-> now]]
    /\ UNCHANGED <<now, cache_ret, dashboard, pnlVars, normVars, appVars, clientVars, chainVars>>

\* time passes between two reruns of the script
Advance(d) ==
    /\ IF d = 86400 THEN now \div 86400 < MaxDays
                    ELSE (now % 86400) \div 10 < MaxTicks
    /\ now' = now + d
    /\ UNCHANGED <<cache, cache_ret, dashboard, pnlVars, normVars, appVars, clientVars, chainVars>>

\* app.py:247-256; the lookup is recorded with the age of the entry in seconds
GetCachedOptionChain(key, ttl_seconds) ==
    /\ LET r == get_cached_option_chain(cache, now, key, ttl_seconds)
       IN  cache_ret' = [called |-> TRUE, key |-> key, ttl_seconds |-> ttl_seconds,
                         present |-> cache[key].present,
                         age |-> IF cache[key].present
                                 THEN now - cache[key].timestamp ELSE 0,
                         hit |-> r.hit, data |-> r.data]
    /\ UNCHANGED <<now, cache, dashboard, pnlVars, normVars, appVars, clientVars, chainVars>>

\* ------------------------------------------------- OptionChainAnalyzer
\* a cell of a numeric column: a number or NaN
NaN    == [nan |-> TRUE,  v |-> 0]
Num(n) == [nan |-> FALSE, v |-> n]

\* pd.to_numeric(x, errors='coerce') on one cell: what does not parse becomes NaN
to_numeric(x) == IF PyFloat(x).ok THEN Num(PyFloat(x).v) ELSE NaN

\* the columns of the chain the analyzer reads, and one it does not
ChainColumns == {"right", "strike_price", "open_interest", "ltp"}

\* a raw row of the chain; a key the row lacks is stored as NoneV
Row(right, strike_price, open_interest, ltp) ==
    [right |-> right, strike_price |-> strike_price, open_interest |-> open_interest,
     ltp |-> ltp]

\* a table: the columns it has and its rows
EmptyFrame == [columns |-> {}, rows |-> <<>>]

\* df.empty: no rows or no columns
IsEmptyFrame(df) == df.rows = <<>> \/ df.columns = {}

\* utils.py:265-274: pd.DataFrame(records) of a list of row mappings, then the
\* numeric columns coerced.  A column exists when some row has its key.
DataFrame(recs) ==
    [columns |-> { c \in ChainColumns : \E n \in DOMAIN recs : recs[n][c] # NoneV },
     rows    |-> [n \in DOMAIN recs |->
                    [right         |-> recs[n].right,
                     strike_price  |-> to_numeric(recs[n].strike_price),
                     open_interest |-> to_numeric(recs[n].open_interest),
                     ltp           |-> to_numeric(recs[n].ltp)]]]

\* utils.py:253-276.  d is the raw payload: NullV for None, DictV(sv) for a
\* mapping whose "Success" is sv (AbsentV when it has no such key).  A scalar
\* or a mapping of scalars under "Success" makes pd.DataFrame raise ValueError.
process_option_chain(d) ==
    IF d.k # "dict" THEN Ok(EmptyFrame)
    ELSE LET recs == d.v
         IN  CASE recs.k = "absent" -> Ok(EmptyFrame)
               [] recs.k = "None"   -> Ok(EmptyFrame)
               [] recs.k = "list"   -> IF recs.v = <<>> THEN Ok(EmptyFrame)
                                       ELSE Ok(DataFrame(recs.v))
               [] recs.k = "dict"   -> IF recs.v = {} THEN Ok(EmptyFrame) ELSE Raised
               [] OTHER             -> Raised

RECURSIVE SumOpenInterest(_, _)
\* rows[rows['right'] == right]['open_interest'].sum(): NaN cells are skipped
SumOpenInterest(rows, right) ==
    IF rows = <<>> THEN 0
    ELSE LET r == Head(rows)
         IN  (IF r.right = S(right) /\ ~r.open_interest.nan THEN r.open_interest.v ELSE 0)
             + SumOpenInterest(Tail(rows), right)

\* calculate_pcr with the two sums exchanged
calculate_pcr_Inverted(df) ==
    IF IsEmptyFrame(df) THEN Ok(<<0, 1>>)
    ELSE IF "right" \notin df.columns \/ "open_interest" \notin df.columns THEN Raised
    ELSE LET call_oi == SumOpenInterest(df.rows, "Put")
             put_oi  == SumOpenInterest(df.rows, "Call")
         IN  IF call_oi = 0 THEN Ok(<<0, 1>>) ELSE Ok(<<put_oi, call_oi>>)

\* utils.py:283-298.  The ratio is the pair <<numerator, denominator>>; a
\* missing column raises KeyError.
calculate_pcr(df) ==
    IF IsEmptyFrame(df) THEN Ok(<<0, 1>>)
    ELSE IF "right" \notin df.columns \/ "open_interest" \notin df.columns THEN Raised
    ELSE LET call_oi == SumOpenInterest(df.rows, "Call")
             put_oi  == SumOpenInterest(df.rows, "Put")
         IN  IF call_oi = 0 THEN Ok(<<0, 1>>) ELSE Ok(<<put_oi, call_oi>>)

RECURSIVE Unique(_, _)
\* df['strike_price'].unique(): the distinct cells in order of first appearance
Unique(rows, seen) ==
    IF rows = <<>> THEN <<>>
    ELSE LET s == Head(rows).strike_price
         IN  IF s \in seen THEN Unique(Tail(rows), seen)
             ELSE <<s>> \o Unique(Tail(rows), seen \cup {s})

RECURSIVE CallPain(_, _)
\* utils.py:314-315: ((strike - calls.strike) * calls.OI).sum() over the calls
\* struck below strike; a comparison with NaN is false, a NaN product is skipped
CallPain(rows, strike) ==
    IF rows = <<>> THEN 0
    ELSE LET r == Head(rows)
         IN  (IF r.right = S("Call") /\ ~r.strike_price.nan /\ ~strike.nan
                 /\ r.strike_price.v < strike.v /\ ~r.open_interest.nan
              THEN (strike.v - r.strike_price.v) * r.open_interest.v ELSE 0)
             + CallPain(Tail(rows), strike)

RECURSIVE PutPain(_, _)
\* utils.py:318-319: ((puts.strike - strike) * puts.OI).sum() over the puts
\* struck above strike
PutPain(rows, strike) ==
    IF rows = <<>> THEN 0
    ELSE LET r == Head(rows)
         IN  (IF r.right = S("Put") /\ ~r.strike_price.nan /\ ~strike.nan
                 /\ r.strike_price.v > strike.v /\ ~r.open_interest.nan
              THEN (r.strike_price.v - strike.v) * r.open_interest.v ELSE 0)
             + PutPain(Tail(rows), strike)

RECURSIVE MinKey(_, _, _)
\* min(pain, key=pain.get): the first key, in insertion order, of the least value
MinKey(strikes, rows, best) ==
    IF strikes = <<>> THEN best
    ELSE LET s == Head(strikes)
         IN  IF CallPain(rows, s) + PutPain(rows, s) < CallPain(rows, best) + PutPain(rows, best)
             THEN MinKey(Tail(strikes), rows, s)
             ELSE MinKey(Tail(strikes), rows, best)

\* get_max_pain returning the first strike of the chain
get_max_pain_FirstStrike(df) ==
    IF IsEmptyFrame(df) THEN Ok(Num(0))
    ELSE IF ~({"strike_price", "right", "open_interest"} \subseteq df.columns) THEN Raised
    ELSE LET strikes == Unique(df.rows, {})
         IN  Ok(strikes[1])

\* get_max_pain returning the least pain instead of the strike that has it
get_max_pain_LeastValue(df) ==
    IF IsEmptyFrame(df) THEN Ok(Num(0))
    ELSE IF ~({"strike_price", "right", "open_interest"} \subseteq df.columns) THEN Raised
    ELSE LET strikes == Unique(df.rows, {})
             best    == MinKey(Tail(strikes), df.rows, strikes[1])
         IN  Ok(Num(CallPain(df.rows, best) + PutPain(df.rows, best)))

\* utils.py:300-323.  A non-empty table has at least one distinct strike, so
\* the loop body runs and a missing column raises KeyError.
get_max_pain(df) ==
    IF IsEmptyFrame(df) THEN Ok(Num(0))
    ELSE IF ~({"strike_price", "right", "open_interest"} \subseteq df.columns) THEN Raised
    ELSE LET strikes == Unique(df.rows, {})
         IN  Ok(MinKey(Tail(strikes), df.rows, strikes[1]))

\* the chains the broker sends: every row a call or a put with a strike and
\* an open interest
ChainRows ==
    { Row(S(right), I(strike), I(oi), I(5)) :
        right \in {"Call", "Put"}, strike \in {100, 200, 300}, oi \in {0, 1, 3} }

\* chains with cells that do not parse
CoercedChains ==
    { <<Row(S("Call"), S("abc"), I(3), I(5)), Row(S("Call"), I(100), I(3), I(5))>>,
      <<Row(S("Call"), I(100), S("abc"), I(5)), Row(S("Put"), I(100), I(3), I(5))>>,
      <<Row(S("Call"), S("100"), S("50"), I(5)), Row(S("Put"), S("100"), S("100"), I(5))>> }

\* chains with rows that lack keys
MalformedChains ==
    { <<Row(NoneV, NoneV, NoneV, NoneV)>>,
      <<Row(NoneV, NoneV, NoneV, I(5))>>,
      <<Row(NoneV, I(100), I(3), I(5))>>,
      <<Row(S("Call"), I(100), NoneV, I(5))>>,
      <<Row(S("Call"), NoneV, I(3), I(5))>>,
      <<Row(S("Call"), NoneV, I(3), I(5)), Row(S("Put"), I(100), I(3), I(5))>> }

\* the raw payloads handed to process_option_chain
ChainPayloads ==
    { NullV, DictV(AbsentV), DictV(NullV), DictV(ScalarV), DictV(DictV({})),
      DictV(DictV({<<"a", 1>>})) }
      \cup { DictV(ListV(l)) : l \in SeqsUpTo(ChainRows, MaxRows) }
      \cup { DictV(ListV(l)) : l \in CoercedChains \cup MalformedChains }

NotRun == [run |-> FALSE, ok |-> TRUE, v |-> 0]
Ran(r) == [run |-> TRUE, ok |-> r.ok, v |-> r.v]

ChainInputs ==
    /\ chain_raw \in ChainPayloads
    /\ chain = [df |-> NotRun, pcr |-> NotRun, max_pain |-> NotRun]

IdleChain ==
    /\ chain_raw = NullV
    /\ chain = [df |-> NotRun, pcr |-> NotRun, max_pain |-> NotRun]

\* df = OptionChainAnalyzer.process_option_chain(data)
ProcessOptionChain ==
    /\ ~chain.df.run
    /\ chain' = [chain EXCEPT !.df = Ran(process_option_chain(chain_raw))]
    /\ UNCHANGED <<chain_raw, pnlVars, normVars, appVars, clientVars, cacheVars>>

\* pcr = OptionChainAnalyzer.calculate_pcr(df)
CalculatePcr ==
    /\ chain.df.run /\ chain.df.ok
    /\ ~chain.pcr.run
    /\ chain' = [chain EXCEPT !.pcr = Ran(calculate_pcr(chain.df.v))]
    /\ UNCHANGED <<chain_raw, pnlVars, normVars, appVars, clientVars, cacheVars>>

\* max_pain = OptionChainAnalyzer.get_max_pain(df, strike_gap)
GetMaxPain ==
    /\ chain.df.run /\ chain.df.ok
    /\ ~chain.max_pain.run
    /\ chain' = [chain EXCEPT !.max_pain = Ran(get_max_pain(chain.df.v))]
    /\ UNCHANGED <<chain_raw, pnlVars, normVars, appVars, clientVars, cacheVars>>

\* ------------------------------------------------- selling options
\* the strikes typed into the form: none, and values that are multiples of
\* both strike gaps, of one, of neither
StrikeInputs == {0, 50, 75, 100}

\* the form of app.py:707-782; the limit price is 0.0 unless Limit is chosen
SellTabForms ==
    { [instrument |-> i, option_type |-> t, strike_price |-> k, lots |-> l,
       order_type |-> ow[1], limit_price |-> ow[2], confirm |-> c] :
        i \in DOMAIN INSTRUMENTS, t \in {"CE", "PE"}, k \in StrikeInputs, l \in 1..MaxLots,
        ow \in SqOrderWidgets, c \in BOOLEAN }

\* the form of pages/3_Sell_Options.py:82-184, whose limit price is at least 0.05
Page3Forms == { w \in SellTabForms : w.order_type = "Limit" => w.limit_price > 0 }

\* st.button(..., disabled=...): a disabled button is never pressed
st_button(pressed, disabled) == pressed /\ ~disabled

\* app.py:855-860
can_place_order(w) ==
    /\ w.confirm
    /\ w.strike_price > 0
    /\ w.strike_price % INSTRUMENTS[w.instrument].strike_gap = 0
    /\ (w.order_type = "Market" \/ w.limit_price > 0)

\* keyword arguments both sell buttons hand to sell_call / sell_put
SellArgs(w, price) ==
    [stock_code   |-> S(INSTRUMENTS[w.instrument].stock_code),
     exchange     |-> INSTRUMENTS[w.instrument].exchange,
     expiry_date  |-> S("2024-01-25"),
     strike_price |-> w.strike_price,
     quantity     |-> w.lots * INSTRUMENTS[w.instrument].lot_size,
     order_type   |-> Lower(w.order_type),
     price        |-> price]

\* app.py:686-915 with the SELL button pressed (or not): the warnings under
\* the fields, then the order
render_sell_options_tab(client, w, pressed, sdk) ==
    IF ~client.exists THEN [calls |-> <<>>, ui |-> <<"error">>, log |-> <<>>]
    ELSE LET warned ==
               (IF w.strike_price > 0
                   /\ w.strike_price % INSTRUMENTS[w.instrument].strike_gap # 0
                THEN <<"warning">> ELSE <<>>)
               \o (IF w.order_type = "Limit" /\ w.limit_price <= 0
                   THEN <<"warning">> ELSE <<>>)
         IN  IF ~st_button(pressed, ~can_place_order(w))
             THEN [calls |-> <<>>, ui |-> warned, log |-> <<>>]
             ELSE LET result == IF w.option_type = "CE"
                                THEN sell_call(client.is_connected,
                                               SellArgs(w, w.limit_price), sdk)
                                ELSE sell_put(client.is_connected,
                                              SellArgs(w, w.limit_price), sdk)
                  IN  IF APIResponse(result.ret).success
                      THEN [calls |-> result.calls, ui |-> warned \o <<"success">>,
                            log |-> result.log \o <<Lg("info", "Order placed")>>]
                      ELSE [calls |-> result.calls, ui |-> warned \o <<"error">>,
                            log |-> result.log \o <<Lg("error", "Order failed")>>]

\* pages/3_Sell_Options.py:140-374: the SELL button exists when the risk box
\* is ticked and the strike is positive.  logged holds what the handler hands
\* to session_manager.log_order.
Page3SellOptions(client, w, pressed, sdk) ==
    LET warned == IF w.strike_price % INSTRUMENTS[w.instrument].strike_gap # 0
                  THEN <<"warning">> ELSE <<>>
    IN  IF ~(w.confirm /\ w.strike_price > 0)
        THEN [calls |-> <<>>, logged |-> <<>>, log |-> <<>>,
              ui |-> warned \o (IF ~w.confirm THEN <<"info">> ELSE <<"warning">>)]
        ELSE IF ~pressed
        THEN [calls |-> <<>>, logged |-> <<>>, log |-> <<>>, ui |-> warned]
        ELSE LET price  == IF w.order_type = "Limit" THEN w.limit_price ELSE 0
                 result == IF w.option_type = "CE"
                           THEN sell_call(client.is_connected, SellArgs(w, price), sdk)
                           ELSE sell_put(client.is_connected, SellArgs(w, price), sdk)
             IN  IF result.ret.success = "True"
                 THEN [calls |-> result.calls, log |-> result.log,
                       logged |-> <<[instrument |-> w.instrument,
                                     strike     |-> w.strike_price,
                                     type       |-> w.option_type,
                                     action     |-> "SELL",
                                     quantity   |-> w.lots
                                                    * INSTRUMENTS[w.instrument].lot_size,
                                     order_type |-> w.order_type]>>,
                       ui |-> warned \o <<"success">>]
                 ELSE [calls |-> result.calls, logged |-> <<>>, log |-> result.log,
                       ui |-> warned \o <<"error">>]

\* a logged-in session that opens the sell form
SellInputs ==
    /\ authenticated = TRUE
    /\ breeze_client = [exists |-> TRUE, is_connected |-> TRUE]
    /\ credentials \in {form \in LoginForms : all(form)}
    /\ broker = NullV
    /\ sdk_calls = <<>>
    /\ log = <<>>
    /\ ui = <<>>
    /\ sq_results = NoResults
    /\ display_data = <<>>
    /\ enhanced_positions = <<>>
    /\ sell_tab = NoSell
    /\ session_logs = NoLogs

\* one run of the tab of app.py
SellOptionsTab(w, pressed, sdk) ==
    /\ authenticated
    /\ LET r == render_sell_options_tab(breeze_client, w, pressed, sdk)
       IN  /\ sell_tab' = [source |-> "app.py", instrument |-> w.instrument,
                           option_type |-> w.option_type,
                           strike_price |-> w.strike_price, lots |-> w.lots,
                           order_type |-> w.order_type, limit_price |-> w.limit_price,
                           confirm |-> w.confirm, calls |-> r.calls, logged |-> <<>>]
           /\ Show([EmptyOut EXCEPT !.ui = r.ui, !.log = r.log])
    /\ UNCHANGED <<authenticated, breeze_client, credentials, broker, session_logs, pnlVars,
                   normVars,
                   extVars>>

\* one run of the page
Page3Sell(w, pressed, sdk) ==
    /\ authenticated
    /\ LET r == Page3SellOptions(breeze_client, w, pressed, sdk)
       IN  /\ sell_tab' = [source |-> "pages/3_Sell_Options.py",
                           instrument |-> w.instrument, option_type |-> w.option_type,
                           strike_price |-> w.strike_price, lots |-> w.lots,
                           order_type |-> w.order_type, limit_price |-> w.limit_price,
                           confirm |-> w.confirm, calls |-> r.calls, logged |-> r.logged]
           /\ Show([EmptyOut EXCEPT !.ui = r.ui, !.log = r.log])
    /\ UNCHANGED <<authenticated, breeze_client, credentials, broker, session_logs, pnlVars,
                   normVars,
                   extVars>>

\* ------------------------------------------------- session logs
\* l[:n]
Slice(l, n) == SubSeq(l, 1, IF Len(l) < n THEN Len(l) ELSE n)

\* the log calls made so far
LogCalls(logs) == logs.logged.order + logs.logged.trade + logs.logged.connection

\* log_order adding the entry at the end of the list
log_order_Appending(order_history, entry) ==
    Slice(order_history \o <<entry>>, 100)

\* session_manager.py:279-295: insert(0, entry), then keep the first 100
log_order(order_history, entry) ==
    Slice(<<entry>> \o order_history, 100)

\* session_manager.py:297-310
log_trade(trade_log, entry) ==
    Slice(<<entry>> \o trade_log, 100)

\* session_manager.py:312-325
log_connection(connection_log, entry) ==
    Slice(<<entry>> \o connection_log, 50)

\* An entry is the mapping handed in with a timestamp added; the details are
\* the number of the call among the calls of its function, which also stands
\* for the time of the call.
\* log_order(order_details)
LogOrder ==
    /\ LogCalls(session_logs) < MaxLogCalls
    /\ session_logs' =
         [session_logs EXCEPT
            !.order_history = log_order(@, [details |-> session_logs.logged.order + 1]),
            !.logged.order = @ + 1]
    /\ UNCHANGED <<authenticated, breeze_client, credentials, sell_tab, broker, outVars,
                   pnlVars, normVars, extVars>>

\* log_trade(trade_details)
LogTrade ==
    /\ LogCalls(session_logs) < MaxLogCalls
    /\ session_logs' =
         [session_logs EXCEPT
            !.trade_log = log_trade(@, [details |-> session_logs.logged.trade + 1]),
            !.logged.trade = @ + 1]
    /\ UNCHANGED <<authenticated, breeze_client, credentials, sell_tab, broker, outVars,
                   pnlVars, normVars, extVars>>

\* log_connection(event), called by set_authenticated (session_manager.py:176-186)
\* as the session is connected and disconnected in turn
LogConnection ==
    /\ LogCalls(session_logs) < MaxLogCalls
    /\ session_logs' =
         [session_logs EXCEPT
            !.connection_log =
                log_connection(@, [details |-> session_logs.logged.connection + 1,
                                   event   |-> IF session_logs.logged.connection % 2 = 0
                                               THEN "Connected" ELSE "Disconnected"]),
            !.logged.connection = @ + 1]
    /\ UNCHANGED <<authenticated, breeze_client, credentials, sell_tab, broker, outVars,
                   pnlVars, normVars, extVars>>

\* ------------------------------------------------- app.py dashboard tab
\* what get_option_chain_quotes answers when the dashboard asks for a chain
DashboardPayloads ==
    { NullV, DictV(ListV(<<>>)), DictV(ScalarV),
      DictV(ListV(<<Row(NoneV, NoneV, NoneV, NoneV)>>)),
      DictV(ListV(<<Row(S("Call"), I(100), NoneV, I(5))>>)),
      DictV(ListV(<<Row(S("Call"), I(100), I(3), I(5)), Row(S("Put"), I(100), I(1), I(5))>>)) }

\* breeze_client.py:80-123: the envelope, the SDK functions called and the log
get_option_chain(connected, expiry_date, sdk, option_chain) ==
    LET r == ExpiryOperation(connected, "get_option_chain", expiry_date, sdk)
    IN  [ret     |-> IF r.ret.success = "True" THEN Env("True", "absent", option_chain)
                     ELSE r.ret,
         sdk_fns |-> [n \in DOMAIN r.calls |-> "get_option_chain_quotes"],
         log     |-> r.log]

\* what one run of the tab leaves: the cache, the record of the run, messages
DashboardOut(entries, sdk_fns, success, df, shown, logged) ==
    [cache |-> entries, sdk_fns |-> sdk_fns, success |-> success, df |-> df,
     ui |-> shown, log |-> logged]

\* app.py:625-680, reached with the table df: the metrics may raise on a table
\* that lacks a column, which handle_api_error (app.py:259-269) reports
DashboardMetrics(entries, sdk_fns, success, df, shown, logged) ==
    IF calculate_pcr(df).ok /\ get_max_pain(df).ok
    THEN DashboardOut(entries, sdk_fns, success, Ran(Ok(df)), shown \o <<"metrics">>, logged)
    ELSE DashboardOut(entries, sdk_fns, success, Ran(Ok(df)), shown \o <<"error">>,
                      logged \o <<Lg("error", "API Error")>>)

\* the fetch with the emptiness test after the cache write
FetchFresh_CachingEmpty(client, entries, clock, cache_key, sdk, option_chain) ==
    LET fetched == get_option_chain(client.is_connected, S("2024-01-25"), sdk, option_chain)
    IN  IF ~APIResponse(fetched.ret).success
        THEN DashboardOut(entries, fetched.sdk_fns, "False", NotRun, <<"error">>, fetched.log)
        ELSE LET df == process_option_chain(fetched.ret.data)
             IN  IF ~df.ok
                 THEN DashboardOut(entries, fetched.sdk_fns, "True", Ran(df), <<"error">>,
                                   fetched.log \o <<Lg("error", "API Error")>>)
                 ELSE IF entries = NoneV
                 THEN DashboardOut(entries, fetched.sdk_fns, "True", Ran(df), <<"error">>,
                                   fetched.log \o <<Lg("error", "API Error")>>)
                 ELSE IF IsEmptyFrame(df.v)
                 THEN DashboardOut([entries EXCEPT ![cache_key] =
                                      [present |-> TRUE, data |-> df.v, timestamp |-> clock]],
                                   fetched.sdk_fns, "True", Ran(df), <<"warning">>,
                                   fetched.log)
                 ELSE DashboardMetrics([entries EXCEPT ![cache_key] =
                                          [present |-> TRUE, data |-> df.v,
                                           timestamp |-> clock]],
                                       fetched.sdk_fns, "True", df.v, <<>>, fetched.log)

\* app.py:601-623: fetch, normalise, build the table and cache it.  On a
\* session whose option_chain_cache is None the subscript assignment of
\* cache_option_chain raises TypeError.
FetchFresh(client, entries, clock, cache_key, sdk, option_chain) ==
    LET fetched == get_option_chain(client.is_connected, S("2024-01-25"), sdk, option_chain)
    IN  IF ~APIResponse(fetched.ret).success
        THEN DashboardOut(entries, fetched.sdk_fns, "False", NotRun, <<"error">>, fetched.log)
        ELSE LET df == process_option_chain(fetched.ret.data)
             IN  IF ~df.ok
                 THEN DashboardOut(entries, fetched.sdk_fns, "True", Ran(df), <<"error">>,
                                   fetched.log \o <<Lg("error", "API Error")>>)
                 ELSE IF IsEmptyFrame(df.v)
                 THEN DashboardOut(entries, fetched.sdk_fns, "True", Ran(df), <<"warning">>,
                                   fetched.log)
                 ELSE IF entries = NoneV
                 THEN DashboardOut(entries, fetched.sdk_fns, "True", Ran(df), <<"error">>,
                                   fetched.log \o <<Lg("error", "API Error")>>)
                 ELSE DashboardMetrics([entries EXCEPT ![cache_key] =
                                          [present |-> TRUE, data |-> df.v,
                                           timestamp |-> clock]],
                                       fetched.sdk_fns, "True", df.v, <<>>, fetched.log)

\* app.py:559-680.  Without a refresh the cache is consulted with the default
\* ttl of 30 seconds; `key not in None` raises TypeError.
render_dashboard_tab(client, entries, clock, cache_key, refresh_clicked, sdk, option_chain) ==
    IF ~client.exists
    THEN DashboardOut(entries, <<>>, "", NotRun, <<"error">>, <<>>)
    ELSE IF refresh_clicked
    THEN FetchFresh(client, entries, clock, cache_key, sdk, option_chain)
    ELSE IF entries = NoneV
    THEN DashboardOut(entries, <<>>, "", NotRun, <<"error">>, <<Lg("error", "API Error")>>)
    ELSE LET cached_df == get_cached_option_chain(entries, clock, cache_key, 30)
         IN  IF cached_df.hit
             THEN DashboardMetrics(entries, <<>>, "", cached_df.data, <<"caption">>, <<>>)
             ELSE FetchFresh(client, entries, clock, cache_key, sdk, option_chain)

\* a logged-in session that opens the dashboard.  config.py:156 starts the
\* session with option_chain_cache None, which app.py:208-209 then leaves
\* alone; a session without that default gets the empty dict.
DashboardInputs ==
    /\ authenticated = TRUE
    /\ breeze_client = [exists |-> TRUE, is_connected |-> TRUE]
    /\ credentials \in {form \in LoginForms : all(form)}
    /\ broker = NullV
    /\ sdk_calls = <<>>
    /\ log = <<>>
    /\ ui = <<>>
    /\ sq_results = NoResults
    /\ display_data = <<>>
    /\ enhanced_positions = <<>>
    /\ sell_tab = NoSell
    /\ session_logs = NoLogs
    /\ now = 0
    /\ cache \in {NoneV, [key \in CacheKeys |-> NoEntry]}
    /\ cache_ret = NoLookup
    /\ dashboard = NoRender

\* ten seconds pass between two reruns of the script
Tick ==
    /\ now \div 10 < MaxTicks
    /\ now' = now + 10
    /\ UNCHANGED <<cache, cache_ret, dashboard, pnlVars, normVars, appVars, clientVars,
                   chainVars>>

\* one run of the dashboard tab
RenderDashboardTab(cache_key, refresh_clicked, sdk, option_chain) ==
    /\ authenticated
    /\ LET r == render_dashboard_tab(breeze_client, cache, now, cache_key, refresh_clicked,
                                     sdk, option_chain)
       IN  /\ cache' = r.cache
           /\ dashboard' = [rendered |-> TRUE, cache_key |-> cache_key,
                            refresh_clicked |-> refresh_clicked, sdk_fns |-> r.sdk_fns,
                            success |-> r.success, df |-> r.df]
           /\ Show([EmptyOut EXCEPT !.ui = r.ui, !.log = r.log])
    /\ UNCHANGED <<now, cache_ret, authenticated, breeze_client, credentials, broker,
                   sell_tab, session_logs, pnlVars, normVars, clientVars, chainVars>>

\* ------------------------------------------------------- specifications
IdleApp  == /\ authenticated = FALSE /\ breeze_client = NoClient /\ broker = NullV
            /\ credentials = NoCredentials
            /\ sdk_calls = <<>> /\ log = <<>> /\ ui = <<>> /\ sq_results = NoResults
            /\ display_data = <<>> /\ enhanced_positions = <<>> /\ sell_tab = NoSell
            /\ session_logs = NoLogs
IdlePnl  == pnl_args = [entry_price |-> 0, current_price |-> 0, quantity |-> 0]
            /\ pnl_ret = [t \in PositionTypes |-> NoReturn]
IdleNorm == raw = [success |-> "absent", message |-> "absent", data |-> AbsentV]
            /\ resp = NoResp /\ records = NotRead
IdleClient == wrapper = [is_connected |-> FALSE] /\ last = NoCall

NextPnl  == \E t \in PositionTypes : CalculatePnl(t)
InitPnl  == PnlInputs /\ IdleNorm /\ IdleApp /\ IdleClient /\ IdleCache /\ IdleChain
SpecPnl  == InitPnl /\ [][NextPnl]_vars

NextNorm == Construct \/ ReadDataList
InitNorm == NormInputs /\ IdlePnl /\ IdleApp /\ IdleClient /\ IdleCache /\ IdleChain
SpecNorm == InitNorm /\ [][NextNorm]_vars

NextClient ==
    \/ \E sdk \in SdkOutcomes : ClientConnect(sdk)
    \/ \E op \in PlainOperations, sdk \in SdkOutcomes : ClientPlainOperation(op, sdk)
    \/ \E op \in ExpiryOperations, expiry_date \in ExpiryInputs, sdk \in SdkOutcomes :
          ClientExpiryOperation(op, expiry_date, sdk)
    \/ \E method \in OrderMethods, expiry_date \in ExpiryInputs, order \in OrderInputs,
          sdk \in SdkOutcomes :
            ClientOrder(method, expiry_date, order, sdk)
    \/ \E fetch \in SdkOutcomes : ClientGetPositions(fetch)
    \/ \E exchange \in Exchanges, fetch \in SdkOutcomes,
          outcomes \in [1..MaxBulk -> SdkOutcomes] :
            ClientSquareOffAll(exchange, fetch, outcomes)
InitClient == ClientInputs /\ IdlePnl /\ IdleNorm /\ IdleCache /\ IdleChain
SpecClient == InitClient /\ [][NextClient]_vars

NextPage ==
    \E selected_positions \in Selections(MaxBulk),
       outcomes \in [1..MaxBulk -> SdkOutcomes] :
         Page4BulkSquareOff(selected_positions, outcomes)
InitPage == PageInputs /\ IdlePnl /\ IdleNorm /\ IdleCache /\ IdleChain
SpecPage == InitPage /\ [][NextPage]_vars

NextCache ==
    \/ \E key \in CacheKeys : CacheOptionChain(key)
    \/ \E d \in ClockSteps : Advance(d)
    \/ \E key \in CacheKeys, ttl_seconds \in Ttls : GetCachedOptionChain(key, ttl_seconds)
InitCache == IdleCache /\ IdlePnl /\ IdleNorm /\ IdleApp /\ IdleClient /\ IdleChain
SpecCache == InitCache /\ [][NextCache]_vars

NextLogs ==
    \/ LogOrder
    \/ LogTrade
    \/ LogConnection
InitLogs == IdleApp /\ IdlePnl /\ IdleNorm /\ IdleClient /\ IdleCache /\ IdleChain
SpecLogs == InitLogs /\ [][NextLogs]_vars

NextSell ==
    \/ \E w \in SellTabForms, pressed \in BOOLEAN, sdk \in SdkOutcomes :
          SellOptionsTab(w, pressed, sdk)
    \/ \E w \in Page3Forms, pressed \in BOOLEAN, sdk \in SdkOutcomes :
          Page3Sell(w, pressed, sdk)
InitSell == SellInputs /\ IdlePnl /\ IdleNorm /\ IdleClient /\ IdleCache /\ IdleChain
SpecSell == InitSell /\ [][NextSell]_vars

NextDashboard ==
    \/ Tick
    \/ \E cache_key \in CacheKeys, refresh_clicked \in BOOLEAN, sdk \in SdkOutcomes,
          option_chain \in DashboardPayloads :
            RenderDashboardTab(cache_key, refresh_clicked, sdk, option_chain)
InitDashboard == DashboardInputs /\ IdlePnl /\ IdleNorm /\ IdleClient /\ IdleChain
SpecDashboard == InitDashboard /\ [][NextDashboard]_vars

NextChain == ProcessOptionChain \/ CalculatePcr \/ GetMaxPain
InitChain == ChainInputs /\ IdlePnl /\ IdleNorm /\ IdleApp /\ IdleClient /\ IdleCache
SpecChain == InitChain /\ [][NextChain]_vars

NextSession ==
    \/ \E form \in LoginForms \cup RenewedForms, sdk \in SdkOutcomes : Login(form, sdk)
    \/ Disconnect
InitSession == InitApp /\ IdlePnl /\ IdleNorm /\ IdleClient /\ IdleCache /\ IdleChain
SpecSession == InitSession /\ [][NextSession]_vars

Next ==
    \/ \E form \in LoginForms, sdk \in SdkOutcomes : Login(form, sdk)
    \/ Disconnect
    \/ \E fetch \in SdkOutcomes : SquareOffTabRender(fetch)
    \/ \E selected_idx \in 1..MaxPositions, order_widget \in SqOrderWidgets,
          sq_qty \in SliderValues, sdk \in SdkOutcomes :
            SquareOffTabSquareOff(selected_idx, order_widget, sq_qty, sdk)
    \/ \E fetch2 \in SdkOutcomes, outcomes \in [1..MaxPositions -> SdkOutcomes] :
            SquareOffTabSquareOffAll(fetch2, outcomes)
    \/ \E fetch \in SdkOutcomes : PositionsTabRender(fetch)

Init == InitApp /\ IdlePnl /\ IdleNorm /\ IdleClient /\ IdleCache /\ IdleChain
Spec == Init /\ [][Next]_vars

\* ------------------------------------------------------------ properties
\* the position record of the end-to-end scenarios: the given opening action,
\* average price 100, last price 80, quantity 50
IsScenario(p, action) ==
    /\ p.action = S(action)
    /\ p.average_price = I(100)
    /\ p.ltp = I(80)
    /\ p.quantity = I(50)

\* a record with no side signal: no action and no negative quantity (the
\* records carry no quantity split and no positionType/segment hint)
NoSideSignal(p) ==
    /\ p.action = NoneV
    /\ PyInt(Get(p, "quantity", I(0))).ok
    /\ PyInt(Get(p, "quantity", I(0))).v >= 0

\* C1: every position record with action "sell" is given the side short and
\* every record with action "buy" the side long, both in the square-off tab's
\* table and in the side handed to square_off_position.
C1_ActionDecidesSide ==
    /\ \A n \in DOMAIN display_data :
         /\ display_data[n].pos.action = S("sell") => display_data[n].Position = "Short"
         /\ display_data[n].pos.action = S("buy")  => display_data[n].Position = "Long"
    /\ \A n \in DOMAIN sdk_calls :
         /\ sdk_calls[n].pos.action = S("sell") => sdk_calls[n].current_position = "short"
         /\ sdk_calls[n].pos.action = S("buy")  => sdk_calls[n].current_position = "long"

\* C2: for the record {action: sell, average_price: 100, ltp: 80, quantity: 50}
\* the derived side is short, the P&L is +1000 and the square-off order is a buy.
C2_SellScenario ==
    /\ \A n \in DOMAIN display_data :
         IsScenario(display_data[n].pos, "sell") =>
            /\ display_data[n].Position = "Short"
            /\ display_data[n].pnl = 1000
    /\ \A n \in DOMAIN sdk_calls :
         IsScenario(sdk_calls[n].pos, "sell") =>
            /\ sdk_calls[n].current_position = "short"
            /\ sdk_calls[n].call.action = "buy"

\* C3: for the record {action: buy, average_price: 100, ltp: 80, quantity: 50}
\* the derived side is long, the P&L is -1000 and the square-off order is a sell.
C3_BuyScenario ==
    /\ \A n \in DOMAIN display_data :
         IsScenario(display_data[n].pos, "buy") =>
            /\ display_data[n].Position = "Long"
            /\ display_data[n].pnl = -1000
    /\ \A n \in DOMAIN sdk_calls :
         IsScenario(sdk_calls[n].pos, "buy") =>
            /\ sdk_calls[n].current_position = "long"
            /\ sdk_calls[n].call.action = "sell"

\* the buy scenario record is shown in the table and an order was issued for it
C3_Witness ==
    /\ \E n \in DOMAIN display_data : IsScenario(display_data[n].pos, "buy")
    /\ \E n \in DOMAIN sdk_calls : IsScenario(sdk_calls[n].pos, "buy")

\* C4: every record without any side signal is given the side long, and a
\* warning is logged for it.
C4_DefaultLongIsFlagged ==
    /\ \A n \in DOMAIN display_data :
         NoSideSignal(display_data[n].pos) =>
            /\ display_data[n].Position = "Long"
            /\ \E m \in DOMAIN log : log[m].level = "warning"
    /\ \A n \in DOMAIN sdk_calls :
         NoSideSignal(sdk_calls[n].pos) =>
            /\ sdk_calls[n].current_position = "long"
            /\ \E m \in DOMAIN log : log[m].level = "warning"

\* C5: every order issued through square_off_position is a sell when the
\* current position is long and a buy when it is short.
C5_CloseActionOfSide ==
    \A n \in DOMAIN sdk_calls :
        /\ sdk_calls[n].current_position = "long"  => sdk_calls[n].call.action = "sell"
        /\ sdk_calls[n].current_position = "short" => sdk_calls[n].call.action = "buy"

\* one handler issued an order for a long and an order for a short position
C5_Witness ==
    /\ \E n \in DOMAIN sdk_calls : sdk_calls[n].current_position = "long"
    /\ \E n \in DOMAIN sdk_calls :
          /\ sdk_calls[n].current_position = "short"
          /\ sdk_calls[n].call.order_type = "market"
    /\ \E n \in DOMAIN sdk_calls : sdk_calls[n].call.order_type = "market"

\* C6: for all prices and quantities calculate_pnl returns, for position type
\* long, a pnl that is the exact negative of the pnl it returns for short.
C6_LongShortNegatives ==
    (pnl_ret["long"] # NoReturn /\ pnl_ret["short"] # NoReturn) =>
        /\ pnl_ret["long"].exc = "none"
        /\ pnl_ret["short"].exc = "none"
        /\ pnl_ret["long"].pnl = -pnl_ret["short"].pnl

\* C7: the P&L of a quantity q is the P&L of |q|: (last - entry) * |q| for
\* long and (entry - last) * |q| for short.
C7_QuantityMagnitude ==
    \A t \in PositionTypes :
        pnl_ret[t].exc = "none" =>
            pnl_ret[t].pnl =
                IF Lower(t) = "long"
                THEN (pnl_args.current_price - pnl_args.entry_price) * Abs(pnl_args.quantity)
                ELSE (pnl_args.entry_price - pnl_args.current_price) * Abs(pnl_args.quantity)

\* C8: with an entry price of 0 the P&L calculation raises nothing and returns
\* plus or minus lastPrice * quantity.
C8_ZeroEntryPrice ==
    \A t \in PositionTypes :
        (pnl_args.entry_price = 0 /\ pnl_ret[t] # NoReturn) =>
            /\ pnl_ret[t].exc = "none"
            /\ pnl_ret[t].pnl \in { pnl_args.current_price * pnl_args.quantity,
                                    -(pnl_args.current_price * pnl_args.quantity) }

\* C9: an envelope whose success flag is false or absent yields no records
\* (data_list is empty, data is the empty mapping), whatever its data field holds.
C9_FailureYieldsNothing ==
    raw.success # "True" =>
        /\ resp # NoResp => data(resp.obj) = {}
        /\ records.read => records.v = <<>>

\* a failed envelope that carries a non-empty Success list has been read
C9_Witness ==
    /\ raw.success = "False"
    /\ raw.data.k = "dict"
    /\ raw.data.v.k = "list"
    /\ raw.data.v.v # <<>>
    /\ records.read

\* C10: a successful envelope whose Success is a single mapping yields exactly
\* one record, with the content of that mapping.
C10_SingleMappingWrapped ==
    (raw.success = "True" /\ raw.data.k = "dict" /\ raw.data.v.k = "dict"
       /\ records.read) =>
        /\ Len(records.v) = 1
        /\ IsDict(records.v[1])
        /\ DictOf(records.v[1]) = raw.data.v.v

\* a successful envelope with a non-empty single mapping has been read
C10_Witness ==
    /\ raw.success = "True"
    /\ raw.data.k = "dict"
    /\ raw.data.v.k = "dict"
    /\ raw.data.v.v # {}
    /\ records.read
    /\ Len(records.v) = 1

\* C11: a successful envelope whose Success is a list yields that list
\* unchanged: same length, same elements, same order.
C11_ListPassedThrough ==
    (raw.success = "True" /\ raw.data.k = "dict" /\ raw.data.v.k = "list"
       /\ records.read) =>
        /\ Len(records.v) = Len(raw.data.v.v)
        /\ \A n \in 1..Len(records.v) : records.v[n] = raw.data.v.v[n]

\* the list [{a:1},{a:2}] of a successful envelope has been read
C11_Witness ==
    /\ raw.success = "True"
    /\ raw.data.k = "dict"
    /\ raw.data.v = ListV(<<DictV({<<"a", 1>>}), DictV({<<"a", 2>>})>>)
    /\ records.read
    /\ Len(records.v) = 2

\* the nested payload is absent or of an unexpected type: data missing, data
\* not a mapping, Success missing, null or a scalar
UnexpectedShape(response) ==
    \/ response.data.k # "dict"
    \/ response.data.v.k \in {"absent", "None", "scalar"}

\* C12: an envelope whose nested payload is absent or of an unexpected type
\* yields the empty mapping and an empty sequence of records; building the
\* response and reading it both complete.
C12_UnexpectedShapeYieldsNothing ==
    UnexpectedShape(raw) =>
        /\ resp # NoResp => data(resp.obj) = {}
        /\ records.read => records.v = <<>>

\* a successful envelope whose Success is a scalar has been built and read
C12_Witness ==
    /\ raw.success = "True"
    /\ raw.data.k = "dict"
    /\ raw.data.v = ScalarV
    /\ resp # NoResp
    /\ records.read

\* a position the bulk run passes over by design: square_off_all skips the
\* positions of another exchange and the positions whose quantity is 0
PassedOver(n) ==
    /\ last.op = "square_off_all"
    /\ \/ last.exchange # "" /\ last.positions[n].exchange_code # S(last.exchange)
       \/ PyInt(Get(last.positions[n], "quantity", I(0))) = Ok(0)

\* C13: a bulk square-off run that has fetched its positions runs to
\* completion: it raises nothing, every position it does not pass over gets
\* exactly one result whatever happened to the positions before it, and the
\* success and failure counts it reports add up to the number of results.
C13_BulkRunsToCompletion ==
    (last.op \in {"square_off_all", "page_bulk"} /\ last.fetched) =>
        /\ ~last.raised
        /\ \A n \in DOMAIN last.positions :
              ~PassedOver(n) =>
                  Cardinality({m \in DOMAIN last.res_at : last.res_at[m] = n}) = 1
        /\ last.op = "page_bulk" =>
              /\ last.counts.reported
              /\ last.counts.success_count + last.counts.fail_count = Len(last.results)

\* C14: within one square_off_all call the place_order calls follow the order
\* of the fetched positions, no position receives more than one, and a call
\* the SDK fails is answered by exactly one failure result for its position.
C14_NoRetry ==
    last.op = "square_off_all" =>
        /\ \A a, b \in DOMAIN last.call_at : a < b => last.call_at[a] < last.call_at[b]
        /\ \A m \in DOMAIN last.call_at :
              /\ last.calls[m].pos = last.positions[last.call_at[m]]
              /\ Cardinality({r \in DOMAIN last.res_at :
                                last.res_at[r] = last.call_at[m]}) = 1
              /\ last.outcomes[last.call_at[m]] = "raise" =>
                    \A r \in DOMAIN last.res_at :
                        last.res_at[r] = last.call_at[m] => last.results[r].success = "False"

\* square_off_all placed two orders, the first of which the SDK failed
C14_Witness ==
    /\ last.op = "square_off_all"
    /\ Len(last.calls) = 2
    /\ last.outcomes[1] = "raise"
    /\ last.results[1].success = "False"
    /\ last.results[2].success = "True"

\* a failure result that carries a message
IsFailure(r) == r.success = "False" /\ r.message # "absent"

\* C16: a connect attempt that fails returns a failure result with a message,
\* raises nothing and leaves the wrapper not connected; every operation called
\* on a wrapper that is not connected returns failure results with a message
\* and calls no SDK function.
C16_StructuredFailures ==
    /\ (last.op = "connect" /\ last.sdk_outcome = "raise") =>
          /\ ~last.raised
          /\ Len(last.results) = 1
          /\ IsFailure(last.results[1])
          /\ ~wrapper.is_connected
    /\ (last.op \in PlainOperations \cup ExpiryOperations \cup OrderMethods
                     \cup {"get_portfolio_positions", "square_off_all"}
          /\ ~last.was_connected) =>
          /\ ~last.raised
          /\ Len(last.results) = 1
          /\ IsFailure(last.results[1])
          /\ last.sdk_fns = <<>>

\* a connect attempt failed on a wrapper that was connected before
C16_Witness ==
    /\ last.op = "connect"
    /\ last.sdk_outcome = "raise"
    /\ last.was_connected
    /\ IsFailure(last.results[1])

\* C15: get_cached_option_chain(key, ttl) returns the table stored for key
\* exactly when an entry for key exists and was stored less than ttl seconds
\* ago; it returns nothing for every age of ttl seconds or more.
C15_FixedTimeToLive ==
    cache_ret.called =>
        /\ cache_ret.hit <=> (cache_ret.present /\ cache_ret.age < cache_ret.ttl_seconds)
        /\ cache_ret.hit => cache_ret.data = TableOf(cache_ret.key)

RECURSIVE SumOf(_, _)
\* the sum of value[n] over the indices n in idx
SumOf(value, idx) ==
    IF idx = {} THEN 0
    ELSE LET n == CHOOSE m \in idx : TRUE
         IN  value[n] + SumOf(value, idx \ {n})

\* the open interest of a row, 0 when it is not a number
OpenInterest(r) == IF r.open_interest.nan THEN 0 ELSE r.open_interest.v

\* sum of the open interest over the rows of one right
TotalOpenInterest(rows, right) ==
    SumOf([n \in DOMAIN rows |-> OpenInterest(rows[n])],
          {n \in DOMAIN rows : rows[n].right = S(right)})

\* the table has the columns the metrics read
HasChainColumns(df) == {"strike_price", "right", "open_interest"} \subseteq df.columns

\* C17: when the total call open interest of a chain is zero the put-call
\* ratio is exactly 0 and nothing is raised, whatever the put open interest;
\* otherwise it is the total put open interest over the total call open interest.
C17_PutCallRatio ==
    (chain.pcr.run /\ (IsEmptyFrame(chain.df.v) \/ HasChainColumns(chain.df.v))) =>
        LET calls == TotalOpenInterest(chain.df.v.rows, "Call")
            puts  == TotalOpenInterest(chain.df.v.rows, "Put")
        IN  /\ chain.pcr.ok
            /\ calls = 0 => chain.pcr.v = <<0, 1>>
            /\ calls # 0 => /\ chain.pcr.v[2] # 0
                            /\ chain.pcr.v[1] * calls = puts * chain.pcr.v[2]

\* the ratio was computed for a chain with puts and with calls of open interest 0
C17_Witness ==
    /\ chain.pcr.run
    /\ HasChainColumns(chain.df.v)
    /\ \E n \in DOMAIN chain.df.v.rows : chain.df.v.rows[n].right = S("Call")
    /\ TotalOpenInterest(chain.df.v.rows, "Call") = 0
    /\ TotalOpenInterest(chain.df.v.rows, "Put") > 0
    /\ chain.pcr.v = <<0, 1>>

\* strike a lies below strike b; no comparison holds for a strike that is not a number
Below(a, b) == ~a.nan /\ ~b.nan /\ a.v < b.v

\* the total of the max-pain definition for candidate strike s: (s - strike) * OI
\* over the calls struck below s plus (strike - s) * OI over the puts struck above s
TotalPain(rows, s) ==
    SumOf([n \in DOMAIN rows |-> (s.v - rows[n].strike_price.v) * OpenInterest(rows[n])],
          {n \in DOMAIN rows : rows[n].right = S("Call") /\ Below(rows[n].strike_price, s)})
    + SumOf([n \in DOMAIN rows |-> (rows[n].strike_price.v - s.v) * OpenInterest(rows[n])],
            {n \in DOMAIN rows : rows[n].right = S("Put") /\ Below(s, rows[n].strike_price)})

\* C18: on a chain get_max_pain returns one of the chain's strikes, and no
\* strike of the chain has a smaller total pain.
C18_MaxPainMinimizes ==
    (chain.max_pain.run /\ ~IsEmptyFrame(chain.df.v) /\ HasChainColumns(chain.df.v)) =>
        LET rows == chain.df.v.rows
        IN  /\ chain.max_pain.ok
            /\ \E n \in DOMAIN rows : rows[n].strike_price = chain.max_pain.v
            /\ \A n \in DOMAIN rows :
                  TotalPain(rows, chain.max_pain.v) <= TotalPain(rows, rows[n].strike_price)

\* the strike returned is the middle one of three, with less pain than the first
C18_Witness ==
    /\ chain.max_pain.run
    /\ Len(chain.df.v.rows) = 3
    /\ chain.df.v.rows[1].strike_price = Num(100)
    /\ chain.df.v.rows[2].strike_price = Num(300)
    /\ chain.df.v.rows[3].strike_price = Num(200)
    /\ chain.max_pain.v = Num(200)
    /\ TotalPain(chain.df.v.rows, Num(200)) < TotalPain(chain.df.v.rows, Num(100))
    /\ TotalPain(chain.df.v.rows, Num(200)) < TotalPain(chain.df.v.rows, Num(300))

\* one call row and one put row at the same strike
SingleStrike(df) ==
    /\ HasChainColumns(df)
    /\ Len(df.rows) = 2
    /\ {df.rows[1].right, df.rows[2].right} = {S("Call"), S("Put")}
    /\ ~df.rows[1].strike_price.nan
    /\ df.rows[1].strike_price = df.rows[2].strike_price

\* C19: on a chain of one call row and one put row at the same strike
\* get_max_pain returns that strike, whatever the two open interests.
C19_SingleStrike ==
    (chain.max_pain.run /\ SingleStrike(chain.df.v)) =>
        /\ chain.max_pain.ok
        /\ chain.max_pain.v = chain.df.v.rows[1].strike_price

\* max pain was computed on a single-strike chain with unequal open interests
C19_Witness ==
    /\ chain.max_pain.run
    /\ SingleStrike(chain.df.v)
    /\ chain.df.v.rows[1].open_interest = Num(3)
    /\ chain.df.v.rows[2].open_interest = Num(1)
    /\ chain.max_pain.v = Num(200)

\* an empty or malformed payload: None or empty, no Success key, Success
\* empty or not a list, or rows without the right, open_interest or strike column
Malformed(d) ==
    \/ d.k # "dict"
    \/ d.v.k # "list"
    \/ d.v.v = <<>>
    \/ \E c \in {"right", "open_interest", "strike_price"} :
          \A n \in DOMAIN d.v.v : d.v.v[n][c] = NoneV

\* C20: for an empty or malformed payload process_option_chain returns an
\* empty table and calculate_pcr and get_max_pain return 0; nothing is raised.
C20_MalformedYieldsNothing ==
    Malformed(chain_raw) =>
        /\ chain.df.run => (chain.df.ok /\ IsEmptyFrame(chain.df.v))
        /\ chain.pcr.run => (chain.pcr.ok /\ chain.pcr.v = <<0, 1>>)
        /\ chain.max_pain.run => (chain.max_pain.ok /\ chain.max_pain.v = Num(0))

\* a string that does not parse as a number
Unparseable(x) == x.k = "str" /\ ~PyFloat(x).ok

\* C21: an unparseable numeric string is treated as the value zero:
\* process_option_chain returns a table and stores 0 in the cell of every
\* strike, open interest or price that does not parse.
C21_UnparseableIsZero ==
    (chain.df.run /\ chain_raw.k = "dict" /\ chain_raw.v.k = "list") =>
        /\ chain.df.ok
        /\ \A n \in DOMAIN chain_raw.v.v :
             \A c \in {"strike_price", "open_interest", "ltp"} :
                Unparseable(chain_raw.v.v[n][c]) => chain.df.v.rows[n][c] = Num(0)

\* the expiry dates in YYYY-MM-DD form, each with its day-abbreviated month-year form
VendorDates == { <<"2024-01-25", "25-Jan-2024">>, <<"2024-02-29", "29-Feb-2024">> }

\* C22: get_option_chain, get_quotes, place_order and get_margin_required hand
\* the SDK the expiry date in day-abbreviated month-year form; called with an
\* expiry date that is not in YYYY-MM-DD form they return a failure result
\* with a message, call no SDK function and raise nothing.
C22_ExpiryTranslated ==
    (last.op \in ExpiryOperations \cup {"place_order"} /\ last.was_connected) =>
        /\ ~last.raised
        /\ \A m \in DOMAIN last.calls :
              /\ last.expiry_date.k = "str"
              /\ <<last.expiry_date.s, last.calls[m].expiry_date>> \in VendorDates
        /\ (\E p \in VendorDates : last.expiry_date = S(p[1])) => Len(last.calls) = 1
        /\ ~(\E p \in VendorDates : last.expiry_date = S(p[1])) =>
              /\ last.sdk_fns = <<>>
              /\ Len(last.results) = 1
              /\ IsFailure(last.results[1])

\* get_quotes reached the SDK with 29-Feb-2024 for the expiry date 2024-02-29
C22_Witness ==
    /\ last.op = "get_quotes"
    /\ last.was_connected
    /\ last.expiry_date = S("2024-02-29")
    /\ Len(last.calls) = 1
    /\ last.calls[1].expiry_date = "29-Feb-2024"

\* an option position with a non-zero quantity
OpenOption(p) == IsOpenOption(p) = Ok(TRUE)

\* the positions fetch of the last handler failed
FetchFailed == \E m \in DOMAIN log : log[m].event = "Failed to get positions"

\* C23: SQUARE OFF ALL attempts exactly one order for each fetched option
\* position with a non-zero quantity and none for any other position, and
\* every order it places is a market order.
C23_OnlyOpenOptions ==
    (sq_results.called /\ ~FetchFailed) =>
        /\ Len(sq_results.v) = Cardinality({n \in DOMAIN broker.v : OpenOption(broker.v[n])})
        /\ \A n \in DOMAIN sdk_calls :
              /\ OpenOption(sdk_calls[n].pos)
              /\ sdk_calls[n].call.order_type = "market"

\* C24: every square-off order carries right "call" for a Call position and
\* "put" for a Put position, the strike of the position, and a quantity no
\* greater than the magnitude of the position's quantity.
C24_SameContract ==
    \A n \in DOMAIN sdk_calls :
        LET p == sdk_calls[n].pos
            o == sdk_calls[n].call
        IN  /\ p.right = S("Call") => o.right = "call"
            /\ p.right = S("Put")  => o.right = "put"
            /\ o.strike_price = PyInt(p.strike_price).v
            /\ o.quantity <= Abs(PyInt(Get(p, "quantity", I(0))).v)

\* C25: across logins and disconnects the session is authenticated only with
\* a stored client whose connect succeeded; an unauthenticated session stores
\* no client and its last handler made no broker call.
C25_AuthenticatedOnlyWithClient ==
    /\ authenticated => breeze_client.exists /\ breeze_client.is_connected
    /\ ~authenticated => breeze_client = NoClient /\ sdk_calls = <<>>
\* a session that was logged in (its credentials were stored) and then disconnected
C25_Witness ==
    /\ ~authenticated /\ breeze_client = NoClient /\ credentials # NoCredentials
    /\ sdk_calls = <<>>

\* C26: a login attempt that fails (a field left empty, or connect reporting
\* failure) changes neither the authenticated flag, nor the stored client, nor
\* the stored api key, api secret and session token.
FailedLogin == ~authenticated /\ ui' \in {<<"warning">>, <<"error">>}
C26_FailedLoginKeepsSession ==
    [][FailedLogin => UNCHANGED <<authenticated, breeze_client, credentials>>]_vars
\* a login with another day's token failed after an earlier login and disconnect
C26_Witness ==
    /\ ui = <<"error">> /\ ~authenticated /\ breeze_client = NoClient
    /\ credentials.session_token = "token-1"

\* C27: in the dashboard tab a refresh always fetches from the broker, whatever
\* the cache holds; the cache changes only by a successful fetch of a
\* non-empty table being stored under the selected key with the current
\* time; a failed or empty fetch leaves every entry and timestamp as it was.
Fetched(d)     == d.sdk_fns # <<>>
FetchedTable(d) == Fetched(d) /\ d.success = "True" /\ d.df.run /\ d.df.ok
                   /\ ~IsEmptyFrame(d.df.v)
DashboardRun   == now' = now /\ dashboard'.rendered
C27_RefreshAndCacheWrite ==
    [][DashboardRun =>
         /\ dashboard'.refresh_clicked => Fetched(dashboard')
         /\ cache' # cache =>
              /\ FetchedTable(dashboard')
              /\ cache' = [cache EXCEPT ![dashboard'.cache_key] =
                             [present |-> TRUE, data |-> dashboard'.df.v, timestamp |-> now]]
         /\ ~FetchedTable(dashboard') => cache' = cache]_vars
\* a refresh was fetched and failed while the key's entry was ten seconds old
C27_Witness ==
    /\ dashboard.rendered /\ dashboard.refresh_clicked /\ Fetched(dashboard)
    /\ dashboard.success = "False"
    /\ cache # NoneV
    /\ cache[dashboard.cache_key].present
    /\ now - cache[dashboard.cache_key].timestamp = 10

\* C28: a sell order reaches the broker only from a form whose risk box is
\* ticked, whose strike is positive and a multiple of the instrument's strike
\* gap, and whose order is a market order or a limit order with a positive
\* price; its quantity is lots times the lot size and its action is sell.
SoundForm(w) ==
    /\ w.confirm
    /\ w.strike_price > 0
    /\ w.strike_price % INSTRUMENTS[w.instrument].strike_gap = 0
    /\ (w.order_type = "Market" \/ (w.order_type = "Limit" /\ w.limit_price > 0))
C28_SellOnlyValidated ==
    \A n \in DOMAIN sell_tab.calls :
        /\ SoundForm(sell_tab)
        /\ sell_tab.calls[n].quantity = sell_tab.lots * INSTRUMENTS[sell_tab.instrument].lot_size
        /\ sell_tab.calls[n].action = "sell"
\* the same for the orders of the tab of app.py alone
C28_TabSellOnlyValidated ==
    sell_tab.source = "app.py" => C28_SellOnlyValidated

\* C29: place_order sends a price to the SDK only for a limit order: a market
\* order goes out with the price field empty whatever price was given, a limit
\* order with the price given; every order of a bulk square-off is a market
\* order with no price.
C29_PriceOnlyForLimit ==
    /\ last.op \in OrderMethods =>
          \A n \in DOMAIN last.calls :
              /\ last.calls[n].order_type = Lower(last.order_type)
              /\ Lower(last.order_type) = "market" => last.calls[n].price.empty
              /\ Lower(last.order_type) = "limit" =>
                    last.calls[n].price = [empty |-> FALSE, v |-> last.price]
    /\ last.op \in {"square_off_all", "page_bulk"} =>
          \A n \in DOMAIN last.calls :
              /\ last.calls[n].call.order_type = "market"
              /\ last.calls[n].call.price.empty
\* a market order given the price 85 reached the SDK without a price
C29_Witness ==
    /\ last.op = "place_order" /\ last.order_type = "Market" /\ last.price = 85
    /\ Len(last.calls) = 1
    /\ last.calls[1].order_type = "market"
    /\ last.calls[1].price.empty
\* a bulk square-off placed two orders
C29_BulkWitness == last.op = "square_off_all" /\ Len(last.calls) = 2

\* C30: after any sequence of log_order, log_trade and log_connection calls
\* the order history and the trade log hold at most 100 entries and the
\* connection log at most 50; each log lists its entries newest first; a full
\* log has lost its oldest entries and no others.
\* l holds the latest entries of the `logged` made, newest first, at most cap
LatestFirst(l, logged, cap) ==
    /\ Len(l) = (IF logged < cap THEN logged ELSE cap)
    /\ \A n \in DOMAIN l : l[n].details = logged - n + 1
C30_LogsCapped ==
    /\ Len(session_logs.order_history) <= 100
    /\ Len(session_logs.trade_log) <= 100
    /\ Len(session_logs.connection_log) <= 50
    /\ LatestFirst(session_logs.order_history, session_logs.logged.order, 100)
    /\ LatestFirst(session_logs.trade_log, session_logs.logged.trade, 100)
    /\ LatestFirst(session_logs.connection_log, session_logs.logged.connection, 50)
\* a 101st order was logged: the history holds orders 101 down to 2
C30_Witness ==
    /\ session_logs.logged.order = 101
    /\ Len(session_logs.order_history) = 100
    /\ session_logs.order_history[1].details = 101
    /\ session_logs.order_history[100].details = 2
\* a 51st connection event was logged
C30_ConnectionWitness ==
    /\ session_logs.logged.connection = 51
    /\ Len(session_logs.connection_log) = 50
    /\ session_logs.connection_log[50].details = 2
====
